---- MODULE Spec2Model ----
(***************************************************************************)
(* Admission-and-accounting pipeline of the Astr web app:                  *)
(*   rateLimitUser / checkInMemoryLimit   (fixed-window rate limiter)      *)
(*   validateRequest / parseBearerToken   (request screening)              *)
(*   authenticateRequest / POST           (analyze route)                  *)
(*   ensureSubscriptionAndSeat / authAndSubscription (middleware)          *)
(* Every await of the source is one step of a request; code between two    *)
(* awaits runs to completion (one Node.js event loop per process).         *)
(***************************************************************************)
EXTENDS Integers, Sequences, FiniteSets, TLC

VARIABLES
    clock,            \* Date.now(), in ms
    limit,            \* the limit argument of rateLimitUser
    rate_limits,      \* rows of the rate_limits table
    nextRowId,        \* ids handed to inserted rate_limits rows
    inMemoryBuckets,  \* the module-level Map of checkInMemoryLimit
    pc,               \* where each request stands
    rl,               \* the locals of each request's rateLimitUser call
    nCalls,           \* history: rateLimitUser calls started so far
    started,          \* history: calls started per subject and window
    admitted,         \* history: allowed decisions per subject and window
    admittedAt,       \* history: allowed decisions per subject and call time
    memAdmitted,      \* history: fallback admissions per in-memory bucket
    dirty,            \* history: subject saw a store fault or overlapping calls
    req,              \* the locals of each request's handler (POST, middleware)
    team_members,     \* rows of the team_members table
    teams,            \* ids of the rows of the teams table
    subscriptions,    \* rows of the subscriptions table
    seats,            \* rows of the seats table
    usage_metrics,    \* rows of the usage_metrics table
    nextUsageId       \* ids handed to inserted usage_metrics rows

\* The tables the entitlement checks read; no handler writes them.
authStore == <<team_members, teams, subscriptions, seats>>

\* The table logUsage writes.
usageStore == <<usage_metrics, nextUsageId>>

\* What rateLimitUser and checkInMemoryLimit never touch.
handlerVars == <<req, authStore, usageStore>>

vars == <<clock, limit, rate_limits, nextRowId, inMemoryBuckets, pc, rl,
          nCalls, started, admitted, admittedAt, memAdmitted, dirty, req, authStore,
          usageStore>>

----------------------------------------------------------------------------
(* Bounds *)
MaxLimit == 2
MaxCalls == 3
TicksPerWindow == 2
MaxTicks == 3

(* Program constants *)
WINDOW_MS == 60000

Procs == {"p1", "p2"}
Users == {"u1", "u2"}

TickMs == WINDOW_MS \div TicksPerWindow
MaxClock == MaxTicks * TickMs
Windows == {w \in 0..MaxClock : w % WINDOW_MS = 0}
Times == {k * TickMs : k \in 0..MaxTicks}

StoreOutcomes == {"ok", "error", "throw"}

----------------------------------------------------------------------------
(* JSON values, sanitizeText, validateRequest, parseBearerToken *)

MAX_MESSAGES == 30

\* The limit POST passes to rateLimitUser.
AnalyzeLimit == 30

Null == "null"

\* Characters of a text: a letter and two kinds of whitespace (\s).
Chars == {"a", " ", "\n"}
IsSpace(c) == c \in {" ", "\n"}

\* A JSON value where a string is expected.
Str(chars) == [kind |-> "string", chars |-> chars]
NotAString == {[kind |-> "number", chars |-> <<>>],
               [kind |-> "undefined", chars |-> <<>>]}

RECURSIVE DropSpaces(_)
DropSpaces(s) ==
    IF s # <<>> /\ IsSpace(Head(s)) THEN DropSpaces(Tail(s)) ELSE s

\* value.replace(/\s+/g, " ")
RECURSIVE CollapseSpaces(_)
CollapseSpaces(s) ==
    IF s = <<>> THEN <<>>
    ELSE IF IsSpace(Head(s)) THEN <<" ">> \o CollapseSpaces(DropSpaces(Tail(s)))
    ELSE <<Head(s)>> \o CollapseSpaces(Tail(s))

RECURSIVE DropTrailingSpaces(_)
DropTrailingSpaces(s) ==
    IF s # <<>> /\ IsSpace(s[Len(s)])
    THEN DropTrailingSpaces(SubSeq(s, 1, Len(s) - 1)) ELSE s

\* String.prototype.trim
Trim(s) == DropTrailingSpaces(DropSpaces(s))

\* sanitizeText
SanitizeText(s) == Trim(CollapseSpaces(s))

\* A faulty message loop: the text is tested before it is sanitized.
RECURSIVE CheckMessagesUnsanitized(_)
CheckMessagesUnsanitized(items) ==
    IF items = <<>> THEN Null
    ELSE IF Head(items).kind # "object" \/ Head(items).text.kind # "string"
    THEN "each message must include text"
    ELSE IF Head(items).text.chars = <<>>
    THEN "message text cannot be empty"
    ELSE CheckMessagesUnsanitized(Tail(items))

\* The loop of validateRequest over body.messages: the first message refused.
RECURSIVE CheckMessages(_)
CheckMessages(items) ==
    IF items = <<>> THEN Null
    ELSE IF Head(items).kind # "object" \/ Head(items).text.kind # "string"
    THEN "each message must include text"
    ELSE IF SanitizeText(Head(items).text.chars) = <<>>
    THEN "message text cannot be empty"
    ELSE CheckMessages(Tail(items))

\* A faulty validateRequest: the upper bound on messages is not tested.
ValidateRequestNoMax(body) ==
    IF body.messages.kind # "array" \/ Len(body.messages.items) < 1
    THEN "messages must be a non-empty array"
    ELSE IF body.tone.kind # "string" \/ Trim(body.tone.chars) = <<>>
    THEN "tone must be a valid string"
    ELSE CheckMessages(body.messages.items)

\* validateRequest: the error message, or null for an accepted body.
ValidateRequest(body) ==
    IF body.messages.kind # "array" \/ Len(body.messages.items) < 1
    THEN "messages must be a non-empty array"
    ELSE IF Len(body.messages.items) > MAX_MESSAGES
    THEN "messages cannot exceed 30 items"
    ELSE IF body.tone.kind # "string" \/ Trim(body.tone.chars) = <<>>
    THEN "tone must be a valid string"
    ELSE CheckMessages(body.messages.items)

\* A header value is a sequence of words and single spaces; adjacent words
\* read as one word. authHeader.split(" "): the pieces between the spaces.
RECURSIVE Split(_)
Split(h) ==
    IF h = <<>> THEN << <<>> >>
    ELSE IF Head(h) = " " THEN << <<>> >> \o Split(Tail(h))
    ELSE LET rest == Split(Tail(h))
         IN  << <<Head(h)>> \o Head(rest) >> \o Tail(rest)

NoHeader == [present |-> FALSE, value |-> <<>>]
Header(value) == [present |-> TRUE, value |-> value]

NoToken == <<>>

\* A faulty parseBearerToken: the scheme is not compared.
ParseBearerTokenAnyScheme(authHeader) ==
    IF ~authHeader.present \/ authHeader.value = <<>> THEN NoToken
    ELSE LET pieces == Split(authHeader.value)
         IN  IF Len(pieces) < 2 \/ pieces[2] = <<>>
             THEN NoToken
             ELSE pieces[2]

\* parseBearerToken: the token, or null (no token) for a header it refuses.
ParseBearerToken(authHeader) ==
    IF ~authHeader.present \/ authHeader.value = <<>> THEN NoToken
    ELSE LET pieces == Split(authHeader.value)
         IN  IF pieces[1] # <<"Bearer">> \/ Len(pieces) < 2 \/ pieces[2] = <<>>
             THEN NoToken
             ELSE pieces[2]

----------------------------------------------------------------------------
(* checkInMemoryLimit *)

NoBucket == [present |-> FALSE, count |-> 0, resetAt |-> 0]

NoResult == [allowed |-> FALSE, remaining |-> -1, resetAt |-> -1]

\* Math.floor(Date.now() / WINDOW_MS) * WINDOW_MS
WindowStart(now) == (now \div WINDOW_MS) * WINDOW_MS

\* A faulty checkInMemoryLimit: the increment of an admitted call is lost.
CheckInMemoryLimitLostUpdate(existing, now, lim) ==
    IF ~existing.present \/ existing.resetAt <= now
    THEN [bucket |-> [present |-> TRUE, count |-> 1, resetAt |-> now + WINDOW_MS],
          result |-> [allowed |-> TRUE, remaining |-> lim - 1,
                      resetAt |-> now + WINDOW_MS]]
    ELSE IF existing.count >= lim
    THEN [bucket |-> existing,
          result |-> [allowed |-> FALSE, remaining |-> 0,
                      resetAt |-> existing.resetAt]]
    ELSE [bucket |-> existing,
          result |-> [allowed |-> TRUE, remaining |-> lim - (existing.count + 1),
                      resetAt |-> existing.resetAt]]

\* A faulty checkInMemoryLimit: a denied call starts the window again.
CheckInMemoryLimitDenyExtends(existing, now, lim) ==
    IF ~existing.present \/ existing.resetAt <= now
    THEN [bucket |-> [present |-> TRUE, count |-> 1, resetAt |-> now + WINDOW_MS],
          result |-> [allowed |-> TRUE, remaining |-> lim - 1,
                      resetAt |-> now + WINDOW_MS]]
    ELSE IF existing.count >= lim
    THEN [bucket |-> [existing EXCEPT !.resetAt = now + WINDOW_MS],
          result |-> [allowed |-> FALSE, remaining |-> 0,
                      resetAt |-> now + WINDOW_MS]]
    ELSE [bucket |-> [existing EXCEPT !.count = @ + 1],
          result |-> [allowed |-> TRUE, remaining |-> lim - (existing.count + 1),
                      resetAt |-> existing.resetAt]]

\* The bucket after the call and the decision returned.
CheckInMemoryLimit(existing, now, lim) ==
    IF ~existing.present \/ existing.resetAt <= now
    THEN [bucket |-> [present |-> TRUE, count |-> 1, resetAt |-> now + WINDOW_MS],
          result |-> [allowed |-> TRUE, remaining |-> lim - 1,
                      resetAt |-> now + WINDOW_MS]]
    ELSE IF existing.count >= lim
    THEN [bucket |-> existing,
          result |-> [allowed |-> FALSE, remaining |-> 0,
                      resetAt |-> existing.resetAt]]
    ELSE [bucket |-> [existing EXCEPT !.count = @ + 1],
          result |-> [allowed |-> TRUE, remaining |-> lim - (existing.count + 1),
                      resetAt |-> existing.resetAt]]

----------------------------------------------------------------------------
(* rateLimitUser: the store *)

\* rows matching .eq("user_id", userId).eq("window_start", windowStart)
MatchingRows(rows, userId, windowStart) ==
    {r \in rows : r.user_id = userId /\ r.window_start = windowStart}

\* .maybeSingle(): no row gives data = null, one row gives it, more is an error
MaybeSingleError(matching) == Cardinality(matching) > 1

\* A faulty update that increments the stored count instead of the count read.
UpdatedCountFromStore(stored, read) == stored + 1

\* update({ count: data.count + 1 }): the count written, from the count read
UpdatedCount(stored, read) == read + 1


\* The count of the single row read by the select (0 when there is none).
DataCount(matching) ==
    IF matching = {} THEN 0 ELSE (CHOOSE r \in matching : TRUE).count

\* A faulty select handling: a thrown store call is not caught.
SelectBranchUncaught(outcome, matching, lim) ==
    IF outcome = "throw" THEN "raise"
    ELSE IF outcome = "error" \/ MaybeSingleError(matching) THEN "fallback"
    ELSE IF matching = {} THEN "insert"
    ELSE IF DataCount(matching) >= lim THEN "deny"
    ELSE "update"

\* A faulty select handling: the bound test is off by one.
SelectBranchOffByOne(outcome, matching, lim) ==
    IF outcome = "throw" THEN "fallback"
    ELSE IF outcome = "error" \/ MaybeSingleError(matching) THEN "fallback"
    ELSE IF matching = {} THEN "insert"
    ELSE IF DataCount(matching) > lim THEN "deny"
    ELSE "update"

\* What rateLimitUser does once the select has settled.
SelectBranch(outcome, matching, lim) ==
    IF outcome = "throw" THEN "fallback"
    ELSE IF outcome = "error" \/ MaybeSingleError(matching) THEN "fallback"
    ELSE IF matching = {} THEN "insert"
    ELSE IF DataCount(matching) >= lim THEN "deny"
    ELSE "update"

\* What rateLimitUser does once the insert has settled.
InsertBranch(outcome) == IF outcome = "ok" THEN "admit" ELSE "fallback"

\* What rateLimitUser does once the update has settled.
UpdateBranch(outcome) == IF outcome = "ok" THEN "admit" ELSE "fallback"

\* The decision of the primary path for a row count of newCount.
PrimaryResult(allowed, newCount, windowStart, lim) ==
    [allowed |-> allowed,
     remaining |-> IF allowed THEN lim - newCount ELSE 0,
     resetAt |-> windowStart + WINDOW_MS]

----------------------------------------------------------------------------
(* rateLimitUser: one call per request, one step per await *)

\* The locals of a handler that has not started.
NoResponse == [status |-> 0, code |-> "none"]
NoBody == [messages |-> [kind |-> "undefined", items |-> <<>>],
           tone |-> [kind |-> "undefined", chars |-> <<>>],
           length |-> [kind |-> "undefined", chars |-> <<>>]]
NoRequest == [entry |-> "none", body |-> NoBody, header |-> NoHeader,
              validationError |-> Null, token |-> NoToken,
              userId |-> "none", teamId |-> "none", teamLinked |-> FALSE,
              seatsAllowed |-> -1, activeSeats |-> -1,
              upstreamCalls |-> 0, upstreamError |-> "none",
              text |-> <<>>, totalTokens |-> -1, usageDate |-> -1,
              usageTokens |-> -1,
              usageOverlap |-> FALSE,
              response |-> NoResponse, trace |-> <<>>, faulted |-> FALSE]

NoCall == [user |-> "none", client |-> "none", now |-> 0, windowStart |-> 0,
           data |-> 0,
           k |-> 0, path |-> "none", failed |-> FALSE, raised |-> FALSE,
           overlap |-> FALSE,
           fbNow |-> 0, fbBefore |-> NoBucket, result |-> NoResult]

InFlight(q) == pc[q] \in {"rl_select", "rl_insert", "rl_update"}

Bump(f, u, w) == [f EXCEPT ![u][w] = @ + 1]

\* The call of p ends on the fallback path: checkInMemoryLimit runs to completion.
Fallback(p, call) ==
    LET u == call.user
        r == CheckInMemoryLimit(inMemoryBuckets[u], clock, limit)
        fresh == ~inMemoryBuckets[u].present \/ inMemoryBuckets[u].resetAt <= clock
    IN  /\ inMemoryBuckets' = [inMemoryBuckets EXCEPT ![u] = r.bucket]
        /\ rl' = [rl EXCEPT ![p] = [call EXCEPT !.path = "fallback",
                                               !.fbNow = clock,
                                               !.fbBefore = inMemoryBuckets[u],
                                               !.result = r.result]]
        /\ memAdmitted' = [memAdmitted EXCEPT ![u] =
                              IF fresh THEN 1
                              ELSE IF r.result.allowed THEN @ + 1 ELSE @]
        /\ admitted' = IF r.result.allowed
                       THEN Bump(admitted, u, call.windowStart) ELSE admitted
        /\ admittedAt' = IF r.result.allowed
                         THEN Bump(admittedAt, u, call.now) ELSE admittedAt
        /\ dirty' = [dirty EXCEPT ![u] = TRUE]
        /\ pc' = [pc EXCEPT ![p] = "rl_done"]

\* The call of p ends by raising (no branch of the code does).
Raise(p, call) ==
    /\ rl' = [rl EXCEPT ![p] = [call EXCEPT !.raised = TRUE]]
    /\ dirty' = [dirty EXCEPT ![call.user] = TRUE]
    /\ pc' = [pc EXCEPT ![p] = "rl_done"]
    /\ UNCHANGED <<inMemoryBuckets, memAdmitted, admitted, admittedAt>>

\* The call of p ends on the primary path.
Primary(p, call, allowed, newCount) ==
    /\ rl' = [rl EXCEPT ![p] = [call EXCEPT !.path = "primary",
                                           !.result = PrimaryResult(allowed, newCount,
                                                         call.windowStart, limit)]]
    /\ admitted' = IF allowed
                   THEN Bump(admitted, call.user, call.windowStart) ELSE admitted
    /\ admittedAt' = IF allowed
                     THEN Bump(admittedAt, call.user, call.now) ELSE admittedAt
    /\ pc' = [pc EXCEPT ![p] = "rl_done"]
    /\ dirty' = [dirty EXCEPT ![call.user] = @ \/ call.failed]
    /\ UNCHANGED <<inMemoryBuckets, memAdmitted>>

\* The store step of a call failed: it returned an error or it threw.
Fault(outcome, matching) == outcome # "ok" \/ MaybeSingleError(matching)

\* Calls of subject u that are between two awaits.
Overlapping(p, u) == {q \in Procs \ {p} : InFlight(q) /\ rl[q].user = u}

\* rateLimitUser(client, userId, limit) up to its first await.
BeginRateLimit(p, u, client) ==
    LET w == WindowStart(clock)
        call == [NoCall EXCEPT !.user = u, !.client = client, !.now = clock,
                               !.windowStart = w,
                               !.k = started[u][w] + 1,
                               !.failed = (client = "null"),
                               !.overlap = (Overlapping(p, u) # {})]
    IN  /\ started' = Bump(started, u, w)
        /\ IF client = "null"
           THEN /\ Fallback(p, call)
           ELSE /\ rl' = [q \in Procs |->
                            IF q = p THEN call
                            ELSE IF q \in Overlapping(p, u)
                            THEN [rl[q] EXCEPT !.overlap = TRUE]
                            ELSE rl[q]]
                /\ pc' = [pc EXCEPT ![p] = "rl_select"]
                /\ dirty' = [dirty EXCEPT ![u] = @ \/ Overlapping(p, u) # {}]
                /\ UNCHANGED <<inMemoryBuckets, memAdmitted, admitted, admittedAt>>

RL_Call(p) ==
    /\ pc[p] = "idle"
    /\ nCalls < MaxCalls
    /\ nCalls' = nCalls + 1
    /\ \E u \in Users, client \in {"ok", "null"} : BeginRateLimit(p, u, client)
    /\ UNCHANGED <<clock, limit, rate_limits, nextRowId, handlerVars>>

RL_Select(p) ==
    /\ pc[p] = "rl_select"
    /\ \E outcome \in StoreOutcomes :
         LET matching == MatchingRows(rate_limits, rl[p].user, rl[p].windowStart)
             branch == SelectBranch(outcome, matching, limit)
             call == [rl[p] EXCEPT !.failed = Fault(outcome, matching)]
             read == [call EXCEPT !.data = DataCount(matching)]
         IN  CASE branch = "fallback" -> Fallback(p, call)
               [] branch = "raise" -> Raise(p, call)
               [] branch = "deny" -> Primary(p, read, FALSE, read.data)
               [] OTHER ->
                    /\ rl' = [rl EXCEPT ![p] = read]
                    /\ pc' = [pc EXCEPT ![p] = "rl_" \o branch]
                    /\ dirty' = [dirty EXCEPT ![read.user] = @ \/ read.failed]
                    /\ UNCHANGED <<inMemoryBuckets, memAdmitted, admitted, admittedAt>>
    /\ UNCHANGED <<clock, limit, rate_limits, nextRowId, nCalls, started,
                   handlerVars>>

RL_Insert(p) ==
    /\ pc[p] = "rl_insert"
    /\ \E outcome \in StoreOutcomes :
         LET call == [rl[p] EXCEPT !.failed = Fault(outcome, {})]
             row == [id |-> nextRowId, user_id |-> call.user,
                     window_start |-> call.windowStart, count |-> 1]
         IN  IF InsertBranch(outcome) = "admit"
             THEN /\ rate_limits' = rate_limits \cup {row}
                  /\ nextRowId' = nextRowId + 1
                  /\ Primary(p, call, TRUE, 1)
             ELSE /\ Fallback(p, call)
                  /\ UNCHANGED <<rate_limits, nextRowId>>
    /\ UNCHANGED <<clock, limit, nCalls, started, handlerVars>>

RL_Update(p) ==
    /\ pc[p] = "rl_update"
    /\ \E outcome \in StoreOutcomes :
         LET call == [rl[p] EXCEPT !.failed = Fault(outcome, {})]
             matching == MatchingRows(rate_limits, call.user, call.windowStart)
         IN  IF UpdateBranch(outcome) = "admit"
             THEN /\ rate_limits' =
                        (rate_limits \ matching) \cup
                        {[r EXCEPT !.count = UpdatedCount(r.count, call.data)] :
                           r \in matching}
                  /\ Primary(p, call, TRUE, call.data + 1)
             ELSE /\ Fallback(p, call)
                  /\ UNCHANGED rate_limits
    /\ UNCHANGED <<clock, limit, nextRowId, nCalls, started, handlerVars>>

\* The caller has taken the decision; the request ends.
RL_Return(p) ==
    /\ pc[p] = "rl_done"
    /\ pc' = [pc EXCEPT ![p] = "idle"]
    /\ rl' = [rl EXCEPT ![p] = NoCall]
    /\ UNCHANGED <<clock, limit, rate_limits, nextRowId, inMemoryBuckets,
                   nCalls, started, admitted, admittedAt, memAdmitted, dirty, handlerVars>>

\* Time passes.
Tick ==
    /\ clock + TickMs <= MaxClock
    /\ clock' = clock + TickMs
    /\ UNCHANGED <<limit, rate_limits, nextRowId, inMemoryBuckets, pc, rl,
                   nCalls, started, admitted, admittedAt, memAdmitted, dirty, handlerVars>>

\* The process has just been loaded: an empty Map, no request under way.
InitLimiter ==
    /\ clock = 0
    /\ inMemoryBuckets = [u \in Users |-> NoBucket]
    /\ rl = [p \in Procs |-> NoCall]
    /\ nCalls = 0
    /\ started = [u \in Users |-> [w \in Windows |-> 0]]
    /\ admitted = [u \in Users |-> [w \in Windows |-> 0]]
    /\ admittedAt = [u \in Users |-> [t \in Times |-> 0]]
    /\ memAdmitted = [u \in Users |-> 0]
    /\ dirty = [u \in Users |-> FALSE]

\* rateLimitUser called on its own, with any limit >= 1, on an empty table.
InitRL ==
    /\ InitLimiter
    /\ limit \in 1..MaxLimit
    /\ rate_limits = {}
    /\ nextRowId = 1
    /\ usage_metrics = {}
    /\ nextUsageId = 1
    /\ pc = [p \in Procs |-> "idle"]
    /\ req = [p \in Procs |-> NoRequest]
    /\ team_members = {}
    /\ teams = {}
    /\ subscriptions = {}
    /\ seats = {}

NextRL ==
    \/ Tick
    \/ \E p \in Procs : RL_Call(p)
    \/ \E p \in Procs : RL_Select(p)
    \/ \E p \in Procs : RL_Insert(p)
    \/ \E p \in Procs : RL_Update(p)
    \/ \E p \in Procs : RL_Return(p)

SpecRL == InitRL /\ [][NextRL]_vars

\* One process instance that serves one request at a time: every call of
\* rateLimitUser has returned before the next one starts.
NextRLSeq ==
    \/ Tick
    \/ \E p \in {"p1"} : RL_Call(p)
    \/ \E p \in {"p1"} : RL_Select(p)
    \/ \E p \in {"p1"} : RL_Insert(p)
    \/ \E p \in {"p1"} : RL_Update(p)
    \/ \E p \in {"p1"} : RL_Return(p)

SpecRLSeq == InitRL /\ [][NextRLSeq]_vars

----------------------------------------------------------------------------
(* POST of the analyze route: from the parsed body to the first store call *)

ErrorResponse(status, code) == [status |-> status, code |-> code]

\* The handler of p returns a response.
Respond(p, r, response) ==
    /\ req' = [req EXCEPT ![p] = [r EXCEPT !.response = response]]
    /\ pc' = [pc EXCEPT ![p] = "responded"]

\* What POST does with the validation error and the parsed token.
ScreenIgnoringValidation(err, token) ==
    IF token = NoToken THEN "unauthorized" ELSE "getUser"

Screen(err, token) ==
    IF err # Null THEN "invalid_request"
    ELSE IF token = NoToken THEN "unauthorized"
    ELSE "getUser"

\* validateRequest, then parseBearerToken, then the call of auth.getUser:
\* no await lies between them.
POST_Screen(p) ==
    /\ pc[p] = "post_screen"
    /\ LET err == ValidateRequest(req[p].body)
           token == ParseBearerToken(req[p].header)
           validated == [req[p] EXCEPT !.validationError = err,
                                       !.trace = Append(@, "validate")]
           parsed == [validated EXCEPT !.token = token,
                                       !.trace = Append(@, "parseBearer")]
       IN  IF Screen(err, token) = "invalid_request"
           THEN Respond(p, validated, ErrorResponse(400, "invalid_request"))
           ELSE IF Screen(err, token) = "unauthorized"
           THEN Respond(p, parsed, ErrorResponse(401, "unauthorized"))
           ELSE /\ req' = [req EXCEPT ![p] = parsed]
                /\ pc' = [pc EXCEPT ![p] = "auth_getUser"]
    /\ UNCHANGED <<clock, limit, rate_limits, nextRowId, inMemoryBuckets, rl,
                   nCalls, started, admitted, admittedAt, memAdmitted, dirty, authStore,
                   usageStore>>

----------------------------------------------------------------------------
(* The identity store and the tables of the entitlement checks *)

\* auth.getUser(token): the user the identity store knows the token for.
UserOf(token) ==
    IF token = <<"tokA">> THEN "u1"
    ELSE IF token = <<"tokB">> THEN "u2"
    ELSE "none"

\* .maybeSingle() on the rows a query matches: [error, found, row].
NoRow == [id |-> "none"]
MaybeSingle(outcome, matching) ==
    IF outcome # "ok" \/ Cardinality(matching) > 1
    THEN [error |-> TRUE, found |-> FALSE, row |-> NoRow]
    ELSE IF matching = {}
    THEN [error |-> FALSE, found |-> FALSE, row |-> NoRow]
    ELSE [error |-> FALSE, found |-> TRUE, row |-> CHOOSE r \in matching : TRUE]

\* A store call of the handler of p throws: POST catches it around
\* authenticateRequest and answers 403; the middleware lets it through.
Thrown(code) == [status |-> -1, code |-> code]
Throw(p, r) ==
    IF r.entry = "analyze"
    THEN Respond(p, r, ErrorResponse(403, "forbidden"))
    ELSE Respond(p, r, Thrown("store_call_threw"))

Traced(r, event) == [r EXCEPT !.trace = Append(@, event)]

\* A store call of the request has come back: faulted remembers whether any
\* of them returned an error or threw.
Called(r, event, outcome) ==
    [Traced(r, event) EXCEPT !.faulted = @ \/ outcome # "ok"]

unchangedByAuth ==
    <<clock, limit, rate_limits, nextRowId, inMemoryBuckets, rl,
      nCalls, started, admitted, admittedAt, memAdmitted, dirty, authStore, usageStore>>

----------------------------------------------------------------------------
(* authenticateRequest of the analyze route, one step per await *)

\* const { data, error } = await adminClient.auth.getUser(token)
Auth_GetUser(p) ==
    /\ pc[p] = "auth_getUser"
    /\ \E outcome \in StoreOutcomes :
         LET r == Called(req[p], "getUser", outcome)
             user == UserOf(r.token)
         IN  IF outcome = "throw" THEN Throw(p, r)
             ELSE IF outcome = "error" \/ user = "none"
             THEN Respond(p, r, ErrorResponse(401, "unauthorized"))
             ELSE /\ req' = [req EXCEPT ![p] = [r EXCEPT !.userId = user]]
                  /\ pc' = [pc EXCEPT ![p] = "auth_member"]
    /\ UNCHANGED unchangedByAuth

\* team_members where user_id = userId and status = 'active'
Auth_Member(p) ==
    /\ pc[p] = "auth_member"
    /\ \E outcome \in StoreOutcomes :
         LET r == Called(req[p], "team_members", outcome)
             res == MaybeSingle(outcome,
                       {m \in team_members :
                           m.user_id = r.userId /\ m.status = "active"})
         IN  IF outcome = "throw" THEN Throw(p, r)
             ELSE IF res.error
             THEN Respond(p, r, ErrorResponse(403, "forbidden"))
             ELSE IF ~res.found
             THEN /\ req' = [req EXCEPT ![p] = r]
                  /\ pc' = [pc EXCEPT ![p] = "auth_memberFallback"]
             ELSE /\ req' = [req EXCEPT ![p] = [r EXCEPT !.teamId = res.row.team_id]]
                  /\ pc' = [pc EXCEPT ![p] = "auth_subscription"]
    /\ UNCHANGED unchangedByAuth

\* team_members where user_id = userId and is_active = true; its error is
\* not read
Auth_MemberFallback(p) ==
    /\ pc[p] = "auth_memberFallback"
    /\ \E outcome \in StoreOutcomes :
         LET r == Called(req[p], "team_members", outcome)
             res == MaybeSingle(outcome,
                       {m \in team_members : m.user_id = r.userId /\ m.is_active})
         IN  IF outcome = "throw" THEN Throw(p, r)
             ELSE IF ~res.found
             THEN Respond(p, r, ErrorResponse(403, "forbidden"))
             ELSE /\ req' = [req EXCEPT ![p] = [r EXCEPT !.teamId = res.row.team_id]]
                  /\ pc' = [pc EXCEPT ![p] = "auth_subscription"]
    /\ UNCHANGED unchangedByAuth

\* subscriptions where team_id = teamId and status in (active, trialing)
Auth_Subscription(p) ==
    /\ pc[p] = "auth_subscription"
    /\ \E outcome \in StoreOutcomes :
         LET r == Called(req[p], "subscriptions", outcome)
             res == MaybeSingle(outcome,
                       {x \in subscriptions :
                           /\ x.team_id = r.teamId
                           /\ x.status \in {"active", "trialing"}})
         IN  IF outcome = "throw" THEN Throw(p, r)
             ELSE IF res.error \/ ~res.found
             THEN Respond(p, r, ErrorResponse(403, "forbidden"))
             ELSE /\ req' = [req EXCEPT ![p] = r]
                  /\ pc' = [pc EXCEPT ![p] = "auth_seat"]
    /\ UNCHANGED unchangedByAuth

\* seats where team_id = teamId and user_id = userId and status = 'active'
Auth_Seat(p) ==
    /\ pc[p] = "auth_seat"
    /\ \E outcome \in StoreOutcomes :
         LET r == Called(req[p], "seats", outcome)
             res == MaybeSingle(outcome,
                       {x \in seats :
                           /\ x.team_id = r.teamId /\ x.user_id = r.userId
                           /\ x.status = "active"})
         IN  IF outcome = "throw" THEN Throw(p, r)
             ELSE IF res.error
             THEN Respond(p, r, ErrorResponse(403, "forbidden"))
             ELSE IF ~res.found
             THEN /\ req' = [req EXCEPT ![p] = r]
                  /\ pc' = [pc EXCEPT ![p] = "auth_seatFallback"]
             ELSE /\ req' = [req EXCEPT ![p] = r]
                  /\ pc' = [pc EXCEPT ![p] = "post_ratelimit"]
    /\ UNCHANGED unchangedByAuth

\* seats where team_id = teamId and user_id = userId and is_active = true
Auth_SeatFallback(p) ==
    /\ pc[p] = "auth_seatFallback"
    /\ \E outcome \in StoreOutcomes :
         LET r == Called(req[p], "seats", outcome)
             res == MaybeSingle(outcome,
                       {x \in seats :
                           /\ x.team_id = r.teamId /\ x.user_id = r.userId
                           /\ x.is_active})
         IN  IF outcome = "throw" THEN Throw(p, r)
             ELSE IF ~res.found
             THEN Respond(p, r, ErrorResponse(403, "forbidden"))
             ELSE /\ req' = [req EXCEPT ![p] = r]
                  /\ pc' = [pc EXCEPT ![p] = "post_ratelimit"]
    /\ UNCHANGED unchangedByAuth

----------------------------------------------------------------------------
(* authAndSubscription and ensureSubscriptionAndSeat, one step per await *)

\* parseBearerToken and the call of auth.getUser
MW_Start(p) ==
    /\ pc[p] = "mw_start"
    /\ LET token == ParseBearerToken(req[p].header)
           r == [Traced(req[p], "parseBearer") EXCEPT !.token = token]
       IN  IF token = NoToken
           THEN Respond(p, r, Thrown("missing_token"))
           ELSE /\ req' = [req EXCEPT ![p] = r]
                /\ pc' = [pc EXCEPT ![p] = "mw_getUser"]
    /\ UNCHANGED unchangedByAuth

\* const { data, error } = await adminClient.auth.getUser(token)
MW_GetUser(p) ==
    /\ pc[p] = "mw_getUser"
    /\ \E outcome \in StoreOutcomes :
         LET r == Called(req[p], "getUser", outcome)
             user == UserOf(r.token)
         IN  IF outcome = "throw" THEN Throw(p, r)
             ELSE IF outcome = "error" \/ user = "none"
             THEN Respond(p, r, Thrown("unauthorized"))
             ELSE /\ req' = [req EXCEPT ![p] = [r EXCEPT !.userId = user]]
                  /\ pc' = [pc EXCEPT ![p] = "ens_member"]
    /\ UNCHANGED unchangedByAuth

\* An ensureSubscriptionAndSeat that never fetches the team.
AfterMemberSkipsTeam(linked) == "ens_subscription"

\* let team = linkedTeam; if (!team) { fetch it }: the step after the
\* membership lookup.
AfterMember(linked) == IF linked THEN "ens_subscription" ELSE "ens_team"

\* team_members (with its team embedded) where user_id = userId and
\* seat_active = true; the embedded team may come back null
Ens_Member(p) ==
    /\ pc[p] = "ens_member"
    /\ \E outcome \in StoreOutcomes, embeds \in BOOLEAN :
         LET r == Called(req[p], "team_members", outcome)
             res == MaybeSingle(outcome,
                       {m \in team_members : m.user_id = r.userId /\ m.seat_active})
             linked == embeds /\ res.found /\ res.row.team_id \in teams
         IN  IF outcome = "throw" THEN Throw(p, r)
             ELSE IF res.error THEN Respond(p, r, Thrown("team_lookup_failed"))
             ELSE IF ~res.found
             THEN Respond(p, r, Thrown("team_membership_missing"))
             ELSE /\ req' = [req EXCEPT ![p] = [r EXCEPT !.teamId = res.row.team_id,
                                                         !.teamLinked = linked]]
                  /\ pc' = [pc EXCEPT ![p] = AfterMember(linked)]
    /\ UNCHANGED unchangedByAuth

\* teams where id = teamMember.team_id
Ens_Team(p) ==
    /\ pc[p] = "ens_team"
    /\ \E outcome \in StoreOutcomes :
         LET r == Called(req[p], "teams", outcome)
             res == MaybeSingle(outcome,
                       {[id |-> t] : t \in {x \in teams : x = r.teamId}})
         IN  IF outcome = "throw" THEN Throw(p, r)
             ELSE IF res.error \/ ~res.found
             THEN Respond(p, r, Thrown("team_missing"))
             ELSE /\ req' = [req EXCEPT ![p] = r]
                  /\ pc' = [pc EXCEPT ![p] = "ens_subscription"]
    /\ UNCHANGED unchangedByAuth

\* subscriptions where team_id = team.id and status = 'active'
Ens_Subscription(p) ==
    /\ pc[p] = "ens_subscription"
    /\ \E outcome \in StoreOutcomes :
         LET r == Called(req[p], "subscriptions", outcome)
             res == MaybeSingle(outcome,
                       {x \in subscriptions :
                           x.team_id = r.teamId /\ x.status = "active"})
         IN  IF outcome = "throw" THEN Throw(p, r)
             ELSE IF res.error \/ ~res.found
             THEN Respond(p, r, Thrown("subscription_inactive"))
             ELSE /\ req' = [req EXCEPT ![p] =
                               [r EXCEPT !.seatsAllowed = res.row.seats_allowed]]
                  /\ pc' = [pc EXCEPT ![p] = "ens_seats"]
    /\ UNCHANGED unchangedByAuth

\* A faulty seat test: a team may fill one seat more than it is allowed.
SeatLimitReachedStrict(activeSeats, seats_allowed) == activeSeats > seats_allowed

\* if (activeSeats >= subscription.seats_allowed)
SeatLimitReached(activeSeats, seats_allowed) == activeSeats >= seats_allowed

\* count of team_members where team_id = team.id and seat_active = true
Ens_Seats(p) ==
    /\ pc[p] = "ens_seats"
    /\ \E outcome \in StoreOutcomes :
         LET r == Called(req[p], "countSeats", outcome)
             seatsUsed == Cardinality({m \in team_members :
                                          m.team_id = r.teamId /\ m.seat_active})
             counted == [r EXCEPT !.activeSeats = seatsUsed]
         IN  IF outcome = "throw" THEN Throw(p, r)
             ELSE IF outcome = "error"
             THEN Respond(p, r, Thrown("seat_count_failed"))
             ELSE IF SeatLimitReached(seatsUsed, r.seatsAllowed)
             THEN Respond(p, counted, Thrown("seat_limit_reached"))
             ELSE /\ req' = [req EXCEPT ![p] = counted]
                  /\ pc' = [pc EXCEPT ![p] = "mw_attached"]
    /\ UNCHANGED unchangedByAuth

----------------------------------------------------------------------------
(* Request screening on its own: every body and header of the bounded sets *)

MaxTextLen == 2
MaxHeaderLen == 3

Strings == UNION {[1..n -> Chars] : n \in 0..MaxTextLen}
Values == {Str(c) : c \in Strings} \cup NotAString

AnAuthor == Str(<<"a">>)
Message(text) == [kind |-> "object", text |-> text, author |-> AnAuthor]
NullMessage == [kind |-> "null", text |-> [kind |-> "undefined", chars |-> <<>>],
                author |-> AnAuthor]
Messages == {Message(t) : t \in Values} \cup {NullMessage}

GoodMessage == Message(Str(<<"a">>))
BlankMessage == Message(Str(<<" ">>))
Repeat(m, n) == [i \in 1..n |-> m]

\* Lists of up to two arbitrary messages, and lists around MAX_MESSAGES long.
ShortLists == UNION {[1..n -> Messages] : n \in 0..2}
LongLists ==
    {Repeat(GoodMessage, n) : n \in (MAX_MESSAGES - 1)..(MAX_MESSAGES + 1)}
    \cup {Append(Repeat(GoodMessage, n - 1), BlankMessage) :
            n \in (MAX_MESSAGES - 1)..(MAX_MESSAGES + 1)}

Array(items) == [kind |-> "array", items |-> items]
MessagesFields ==
    {Array(l) : l \in ShortLists \cup LongLists}
    \cup {[kind |-> "undefined", items |-> <<>>],
          [kind |-> "string", items |-> <<GoodMessage>>]}

NoLength == [kind |-> "undefined", chars |-> <<>>]
Bodies == [messages : MessagesFields, tone : Values, length : {NoLength}]
PlainBody == [messages |-> Array(<<GoodMessage>>), tone |-> Str(<<"a">>),
              length |-> NoLength]

HeaderWords == {" ", "Bearer", "Basic", "tokA"}
Headers ==
    {NoHeader} \cup
    {Header(v) : v \in UNION {[1..n -> HeaderWords] : n \in 0..MaxHeaderLen}}

Analyze(body, header) ==
    [NoRequest EXCEPT !.entry = "analyze", !.body = body, !.header = header]

\* One request whose body has been parsed; the body and the header are any
\* of the bounded sets (one of the two is a plain one).
InitValidate ==
    /\ InitLimiter
    /\ limit = AnalyzeLimit
    /\ rate_limits = {}
    /\ nextRowId = 1
    /\ usage_metrics = {}
    /\ nextUsageId = 1
    /\ team_members = {}
    /\ teams = {}
    /\ subscriptions = {}
    /\ seats = {}
    /\ pc = [p \in Procs |-> IF p = "p1" THEN "post_screen" ELSE "idle"]
    /\ \E body \in Bodies, header \in Headers :
         /\ \/ header = Header(<<"Bearer", " ", "tokA">>)
            \/ body = PlainBody
         /\ req = [p \in Procs |->
                     IF p = "p1" THEN Analyze(body, header) ELSE NoRequest]

NextValidate == \E p \in Procs : POST_Screen(p)

SpecValidate == InitValidate /\ [][NextValidate]_vars

----------------------------------------------------------------------------
(* The two admission entry points on a store that does not change *)

MaxSeats == 2

ValidBody == PlainBody
RequestBodies ==
    {ValidBody,
     [ValidBody EXCEPT !.messages = Array(<<>>)],
     [ValidBody EXCEPT !.messages = Array(Repeat(GoodMessage, MAX_MESSAGES + 1))]}

RequestHeaders ==
    {NoHeader,
     Header(<<"Basic", " ", "tokA">>),
     Header(<<"Bearer", " ">>),
     Header(<<"Bearer", " ", "tokA">>),
     Header(<<"Bearer", " ", "bad">>)}

\* A request reaches POST: await request.json() gives the body or throws.
POST_Receive(p, headers, bodies) ==
    /\ pc[p] = "idle"
    /\ \E header \in headers, json \in {"ok", "invalid"} :
         IF json = "invalid"
         THEN Respond(p, Analyze(NoBody, header), ErrorResponse(400, "invalid_json"))
         ELSE \E body \in bodies :
                /\ req' = [req EXCEPT ![p] = Analyze(body, header)]
                /\ pc' = [pc EXCEPT ![p] = "post_screen"]
    /\ UNCHANGED unchangedByAuth

\* A request reaches a route handler that calls authAndSubscription.
MW_Receive(p, headers) ==
    /\ pc[p] = "idle"
    /\ \E header \in headers :
         req' = [req EXCEPT ![p] = [NoRequest EXCEPT !.entry = "middleware",
                                                      !.header = header]]
    /\ pc' = [pc EXCEPT ![p] = "mw_start"]
    /\ UNCHANGED unchangedByAuth

Member(id, user, seat_active, status, is_active) ==
    [id |-> id, team_id |-> "t1", user_id |-> user, seat_active |-> seat_active,
     status |-> status, is_active |-> is_active]

\* The caller's membership: none, or one row in any state of its columns, or
\* an active row in each of two teams (which the queries must answer for,
\* though the unique index of the migration on team_members(user_id) keeps
\* such rows out of a table it governs).
CallerRows ==
    {{}} \cup
    {{Member("m1", "u1", a, st, ia)} :
        a \in BOOLEAN, st \in {"active", "inactive"}, ia \in BOOLEAN}
    \cup {{Member("m1", "u1", TRUE, "active", TRUE),
           [Member("m4", "u1", TRUE, "active", TRUE) EXCEPT !.team_id = "t2"]}}

\* The other members of the caller's team.
OtherRows ==
    {{},
     {Member("m2", "u2", TRUE, "active", TRUE)},
     {Member("m2", "u2", FALSE, "inactive", FALSE)},
     {Member("m2", "u2", TRUE, "active", TRUE),
      Member("m3", "u3", TRUE, "active", TRUE)}}

Subscription(id, status, seats_allowed) ==
    [id |-> id, team_id |-> "t1", status |-> status, seats_allowed |-> seats_allowed]

SubscriptionRows ==
    {{}} \cup
    {{Subscription("s1", st, n)} :
        st \in {"active", "trialing", "canceled"}, n \in 0..MaxSeats}
    \cup {{Subscription("s1", "active", MaxSeats),
           Subscription("s2", "active", MaxSeats)}}

Seat(status, is_active) ==
    [id |-> "e1", team_id |-> "t1", user_id |-> "u1", status |-> status,
     is_active |-> is_active]

SeatRows == {{}, {Seat("active", TRUE)}, {Seat("inactive", TRUE)}}

InitAuth ==
    /\ InitLimiter
    /\ limit = AnalyzeLimit
    /\ rate_limits = {}
    /\ nextRowId = 1
    /\ usage_metrics = {}
    /\ nextUsageId = 1
    /\ pc = [p \in Procs |-> "idle"]
    /\ req = [p \in Procs |-> NoRequest]
    /\ \E caller \in CallerRows, others \in OtherRows :
         team_members = caller \cup others
    /\ teams \in {{}, {"t1"}}
    /\ subscriptions \in SubscriptionRows
    /\ seats \in SeatRows

NextAuth ==
    \/ POST_Receive("p1", RequestHeaders, RequestBodies)
    \/ POST_Screen("p1")
    \/ Auth_GetUser("p1")
    \/ Auth_Member("p1")
    \/ Auth_MemberFallback("p1")
    \/ Auth_Subscription("p1")
    \/ Auth_Seat("p1")
    \/ Auth_SeatFallback("p1")
    \/ MW_Receive("p1", RequestHeaders)
    \/ MW_Start("p1")
    \/ MW_GetUser("p1")
    \/ Ens_Member("p1")
    \/ Ens_Team("p1")
    \/ Ens_Subscription("p1")
    \/ Ens_Seats("p1")

SpecAuth == InitAuth /\ [][NextAuth]_vars

----------------------------------------------------------------------------
(* The two entry points side by side: the same user on the same store *)

PolicyHeaders == {Header(<<"Bearer", " ", "tokA">>)}

\* p1 comes through authAndSubscription, p2 through the analyze route.
NextPolicy ==
    \/ MW_Receive("p1", PolicyHeaders)
    \/ MW_Start("p1")
    \/ MW_GetUser("p1")
    \/ Ens_Member("p1")
    \/ Ens_Team("p1")
    \/ Ens_Subscription("p1")
    \/ Ens_Seats("p1")
    \/ POST_Receive("p2", PolicyHeaders, {ValidBody})
    \/ POST_Screen("p2")
    \/ Auth_GetUser("p2")
    \/ Auth_Member("p2")
    \/ Auth_MemberFallback("p2")
    \/ Auth_Subscription("p2")
    \/ Auth_Seat("p2")
    \/ Auth_SeatFallback("p2")

SpecPolicy == InitAuth /\ [][NextPolicy]_vars

----------------------------------------------------------------------------
(* POST of the analyze route: from the rate limit to the upstream call *)

\* rateLimitUser(adminClient, authContext.userId, 30): the client is the one
\* authenticateRequest has already obtained, so it is never null here.
POST_RateLimit(p) ==
    /\ pc[p] = "post_ratelimit"
    /\ req' = [req EXCEPT ![p] = Traced(@, "rateLimit")]
    /\ BeginRateLimit(p, req[p].userId, "ok")
    /\ UNCHANGED <<clock, limit, rate_limits, nextRowId, nCalls, authStore,
                   usageStore>>

\* What POST does with the decision of rateLimitUser.
AfterRateLimitIgnoringDecision(result) == "upstream"

AfterRateLimit(result) ==
    IF ~result.allowed THEN "rate_limited" ELSE "upstream"

\* The number 0 where a string is expected ("number" is any other number).
Zero == [kind |-> "zero", chars |-> <<>>]

\* message.author || "Unknown" keeps the author: it is neither undefined,
\* nor 0, nor the empty string.
Truthy(v) ==
    \/ v.kind = "number"
    \/ v.kind = "string" /\ v.chars # <<>>

\* length?.trim() is called: length is neither undefined nor null.
NotNullish(v) == v.kind # "undefined"

\* buildPrompt calls sanitizeText(message.author || "Unknown") and
\* length?.trim(): a number in either place has no such method.
BuildPromptThrows(body) ==
    \/ \E i \in 1..Len(body.messages.items) :
          /\ Truthy(body.messages.items[i].author)
          /\ body.messages.items[i].author.kind # "string"
    \/ NotNullish(body.length) /\ body.length.kind # "string"

\* The decision is back: 429, or buildPrompt and generateGeminiReply up to
\* its fetch. GEMINI_KEY is read on every call.
POST_AfterRateLimit(p) ==
    /\ pc[p] = "rl_done"
    /\ req[p].entry = "analyze"
    /\ \E key \in {"set", "unset"} :
         IF rl[p].raised
         THEN Respond(p, req[p], Thrown("rate_limit_threw"))
         ELSE IF AfterRateLimit(rl[p].result) = "rate_limited"
         THEN Respond(p, req[p], ErrorResponse(429, "rate_limited"))
         ELSE IF BuildPromptThrows(req[p].body)
         THEN Respond(p, req[p], Thrown("build_prompt_threw"))
         ELSE IF key = "unset"
         THEN Respond(p, [req[p] EXCEPT !.upstreamError = "no_key"],
                      ErrorResponse(502, "ai_error"))
         ELSE /\ req' = [req EXCEPT ![p] =
                           [Traced(@, "upstream") EXCEPT !.upstreamCalls = @ + 1]]
              /\ pc' = [pc EXCEPT ![p] = "gemini_fetch"]
    /\ UNCHANGED unchangedByAuth

----------------------------------------------------------------------------
(* generateGeminiReply, one step per await, and the timer that aborts it *)

MaxTokens == 2

\* usageMetadata.totalTokenCount: absent, or a count.
NoTokens == -1
UpstreamTokens == {NoTokens} \cup 0..MaxTokens

\* candidates[0].content.parts[0].text: absent, or a string.
UpstreamTexts == {[kind |-> "undefined", chars |-> <<>>],
                  Str(<<" ">>), Str(<<"a">>)}

\* payload...text?.trim() ?? ""
ReplyText(t) == IF t.kind = "string" THEN Trim(t.chars) ELSE <<>>

\* A POST that calls generateGeminiReply once more after a first failure.
UpstreamRetries(p, kind) ==
    IF req[p].upstreamCalls < 2
    THEN /\ req' = [req EXCEPT ![p] =
                      [Traced(@, "upstream") EXCEPT !.upstreamCalls = @ + 1]]
         /\ pc' = [pc EXCEPT ![p] = "gemini_fetch"]
    ELSE Respond(p, [req[p] EXCEPT !.upstreamError = kind],
                 ErrorResponse(502, "ai_error"))

\* generateGeminiReply throws: the catch of POST answers 502 ai_error.
UpstreamFails(p, kind) ==
    Respond(p, [req[p] EXCEPT !.upstreamError = kind],
            ErrorResponse(502, "ai_error"))

\* await fetch(...) settles before the timer fires.
Gemini_Fetch(p) ==
    /\ pc[p] = "gemini_fetch"
    /\ \E outcome \in {"ok", "status", "network"} :
         CASE outcome = "ok" ->
                /\ pc' = [pc EXCEPT ![p] = "gemini_json"]
                /\ UNCHANGED req
           [] outcome = "status" ->
                /\ pc' = [pc EXCEPT ![p] = "gemini_errorText"]
                /\ UNCHANGED req
           [] OTHER -> UpstreamFails(p, "network")
    /\ UNCHANGED unchangedByAuth

\* await response.text() of a response that is not ok, then the throw.
Gemini_ErrorText(p) ==
    /\ pc[p] = "gemini_errorText"
    /\ \E outcome \in {"ok", "network"} :
         UpstreamFails(p, IF outcome = "ok" THEN "status" ELSE "network")
    /\ UNCHANGED unchangedByAuth

\* A timer that is cleared as soon as fetch has settled.
TimerClearedAfterFetch(at) == at = "gemini_fetch"

\* The timer is set before the fetch and cleared in the finally: it is armed
\* at every await of generateGeminiReply.
TimerArmed(at) == at \in {"gemini_fetch", "gemini_errorText", "gemini_json"}

\* setTimeout(() => controller.abort(), timeoutMs) fires while an await of
\* generateGeminiReply is pending: AbortError, rethrown as a timeout.
Gemini_Timeout(p) ==
    /\ TimerArmed(pc[p])
    /\ UpstreamFails(p, "timeout")
    /\ UNCHANGED unchangedByAuth

----------------------------------------------------------------------------
(* The end of POST: the reply, logUsage one step per await, the response *)

MS_PER_DAY == 86400000

\* new Date().toISOString().slice(0, 10): the UTC day of the clock.
UsageDate(now) == now \div MS_PER_DAY

\* if (!tokens) return
LogUsageSkips(tokens) == tokens = NoTokens \/ tokens = 0

Reply == [status |-> 200, code |-> "reply"]

\* A POST that takes any reply for a text.
EmptyReplyNever(text) == FALSE

\* if (!geminiResponse.text)
EmptyReply(text) == text = <<>>

\* The requests that are between two awaits of logUsage.
Logging(p) ==
    {q \in Procs \ {p} : pc[q] \in {"usage_select", "usage_insert", "usage_update"}}

\* logUsage(userId, teamId, tokens) up to its select; usageOverlap remembers
\* that another logUsage was under way.
BeginLogUsage(p, r) ==
    [q \in Procs |->
        IF q = p
        THEN [r EXCEPT !.usageDate = UsageDate(clock),
                       !.usageOverlap = (Logging(p) # {})]
        ELSE IF q \in Logging(p) THEN [req[q] EXCEPT !.usageOverlap = TRUE]
        ELSE req[q]]

\* await response.json(), the return of generateGeminiReply, then POST up
\* to the select of logUsage.
Gemini_Json(p) ==
    /\ pc[p] = "gemini_json"
    /\ \E outcome \in {"ok", "invalid"}, t \in UpstreamTexts, n \in UpstreamTokens :
         LET r == [req[p] EXCEPT !.text = ReplyText(t), !.totalTokens = n]
         IN  IF outcome = "invalid" THEN UpstreamFails(p, "parse")
             ELSE IF EmptyReply(r.text)
             THEN Respond(p, r, ErrorResponse(502, "empty_response"))
             ELSE IF LogUsageSkips(n) THEN Respond(p, r, Reply)
             ELSE /\ req' = BeginLogUsage(p, r)
                  /\ pc' = [pc EXCEPT ![p] = "usage_select"]
    /\ UNCHANGED unchangedByAuth

unchangedByUsage ==
    <<clock, limit, rate_limits, nextRowId, inMemoryBuckets, rl,
      nCalls, started, admitted, admittedAt, memAdmitted, dirty, authStore>>

\* The rows of usage_metrics the three queries of logUsage address.
UsageRows(r) ==
    {m \in usage_metrics :
        /\ m.usage_date = r.usageDate
        /\ m.user_id = r.userId
        /\ m.team_id = r.teamId}

\* A logUsage without its try: a store call that throws is not caught.
LogUsageEndsUncaught(outcome) ==
    IF outcome = "throw" THEN "raises" ELSE "returns"

\* try { ... } catch (error) { } around the store calls of logUsage:
\* whatever a call does, logUsage returns.
LogUsageEnds(outcome) == "returns"

\* POST after await logUsage(...): the reply, or its catch had logUsage raised.
AfterLogUsage(p, r, outcome) ==
    IF LogUsageEnds(outcome) = "raises"
    THEN Respond(p, r, ErrorResponse(502, "ai_error"))
    ELSE Respond(p, r, Reply)

\* select tokens ... maybeSingle(); an error or a throw ends logUsage.
Usage_Select(p) ==
    /\ pc[p] = "usage_select"
    /\ \E outcome \in StoreOutcomes :
         LET r == Called(req[p], "usage_select", outcome)
             res == MaybeSingle(outcome, UsageRows(r))
         IN  IF res.error THEN AfterLogUsage(p, r, outcome)
             ELSE IF ~res.found
             THEN /\ req' = [req EXCEPT ![p] = r]
                  /\ pc' = [pc EXCEPT ![p] = "usage_insert"]
             ELSE /\ req' = [req EXCEPT ![p] =
                               [r EXCEPT !.usageTokens = res.row.tokens]]
                  /\ pc' = [pc EXCEPT ![p] = "usage_update"]
    /\ UNCHANGED <<unchangedByUsage, usageStore>>

\* insert({usage_date, user_id, team_id, tokens}); its result is not read.
\* No other column is given a value: a requests_count stays at its default
\* (0 in the usage table of the migration), here and in the update.
Usage_Insert(p) ==
    /\ pc[p] = "usage_insert"
    /\ \E outcome \in StoreOutcomes :
         LET r == Called(req[p], "usage_insert", outcome)
             row == [id |-> nextUsageId, usage_date |-> r.usageDate,
                     user_id |-> r.userId, team_id |-> r.teamId,
                     tokens |-> r.totalTokens, requests_count |-> 0]
         IN  /\ IF outcome = "ok"
                THEN /\ usage_metrics' = usage_metrics \cup {row}
                     /\ nextUsageId' = nextUsageId + 1
                ELSE UNCHANGED usageStore
             /\ AfterLogUsage(p, r, outcome)
    /\ UNCHANGED unchangedByUsage

\* An increment done by the store: the tokens are added to what the row
\* holds when the update runs.
UpdatedTokensInStore(stored, read, tokens) == stored + tokens

\* (data.tokens ?? 0) + tokens: the tokens are added to what the select read.
UpdatedTokens(stored, read, tokens) == read + tokens

\* update({tokens: data.tokens + tokens}) of the addressed rows; its result
\* is not read.
Usage_Update(p) ==
    /\ pc[p] = "usage_update"
    /\ \E outcome \in StoreOutcomes :
         LET r == Called(req[p], "usage_update", outcome)
         IN  /\ IF outcome = "ok"
                THEN usage_metrics' =
                        (usage_metrics \ UsageRows(r)) \cup
                        {[m EXCEPT !.tokens = UpdatedTokens(m.tokens, r.usageTokens,
                                                            r.totalTokens)] :
                           m \in UsageRows(r)}
                ELSE UNCHANGED usage_metrics
             /\ AfterLogUsage(p, r, outcome)
    /\ UNCHANGED <<unchangedByUsage, nextUsageId>>

----------------------------------------------------------------------------
(* The whole pipeline: two requests of the analyze route side by side *)

PipeHeaders ==
    {NoHeader,
     Header(<<"Bearer", " ", "tokA">>),
     Header(<<"Bearer", " ", "tokB">>)}

\* u1 is an active member with an active seat. u2 is a member of the same
\* team: like u1, or entitled through the is_active columns only, or without
\* a seat.
SeatOfU2(status) ==
    [Seat(status, TRUE) EXCEPT !.id = "e2", !.user_id = "u2"]
PipeEntitlements ==
    {[team_members |-> {Member("m1", "u1", TRUE, "active", TRUE),
                        Member("m2", "u2", TRUE, "active", TRUE)},
      seats |-> {Seat("active", TRUE), SeatOfU2("active")}],
     [team_members |-> {Member("m1", "u1", TRUE, "active", TRUE),
                        Member("m2", "u2", TRUE, "inactive", TRUE)},
      seats |-> {Seat("active", TRUE), SeatOfU2("inactive")}],
     [team_members |-> {Member("m1", "u1", TRUE, "active", TRUE),
                        Member("m2", "u2", TRUE, "active", TRUE)},
      seats |-> {Seat("active", TRUE)}]}

\* The counter of u1 for the current window: absent, one short of the
\* limit, or at the limit.
PipeCounters ==
    {{}} \cup
    {{[id |-> 1, user_id |-> "u1", window_start |-> 0, count |-> c]} :
        c \in {AnalyzeLimit - 1, AnalyzeLimit}}

\* The row an earlier request of u1 has left in usage_metrics for today.
PriorUsage ==
    [id |-> 0, usage_date |-> UsageDate(0), user_id |-> "u1", team_id |-> "t1",
     tokens |-> 1, requests_count |-> 0]

\* The tables the requests write: empty but for the counter of u1, or empty
\* but for the usage row of u1.
PipeTables ==
    {[rate_limits |-> c, usage_metrics |-> {}] : c \in PipeCounters}
    \cup {[rate_limits |-> {}, usage_metrics |-> {PriorUsage}]}

InitPipe ==
    /\ InitLimiter
    /\ limit = AnalyzeLimit
    /\ \E t \in PipeTables :
         /\ rate_limits = t.rate_limits
         /\ usage_metrics = t.usage_metrics
    /\ nextRowId = 2
    /\ nextUsageId = 1
    /\ pc = [p \in Procs |-> "idle"]
    /\ req = [p \in Procs |-> NoRequest]
    /\ teams = {"t1"}
    /\ subscriptions = {Subscription("s1", "active", MaxSeats)}
    /\ \E e \in PipeEntitlements :
         /\ team_members = e.team_members
         /\ seats = e.seats

NextPipe ==
    \/ \E p \in Procs : POST_Receive(p, PipeHeaders, RequestBodies)
    \/ \E p \in Procs : POST_Screen(p)
    \/ \E p \in Procs : Auth_GetUser(p)
    \/ \E p \in Procs : Auth_Member(p)
    \/ \E p \in Procs : Auth_MemberFallback(p)
    \/ \E p \in Procs : Auth_Subscription(p)
    \/ \E p \in Procs : Auth_Seat(p)
    \/ \E p \in Procs : Auth_SeatFallback(p)
    \/ \E p \in Procs : POST_RateLimit(p)
    \/ \E p \in Procs : RL_Select(p)
    \/ \E p \in Procs : RL_Insert(p)
    \/ \E p \in Procs : RL_Update(p)
    \/ \E p \in Procs : POST_AfterRateLimit(p)
    \/ \E p \in Procs : Gemini_Fetch(p)
    \/ \E p \in Procs : Gemini_ErrorText(p)
    \/ \E p \in Procs : Gemini_Json(p)
    \/ \E p \in Procs : Gemini_Timeout(p)
    \/ \E p \in Procs : Usage_Select(p)
    \/ \E p \in Procs : Usage_Insert(p)
    \/ \E p \in Procs : Usage_Update(p)

SpecPipe == InitPipe /\ [][NextPipe]_vars

\* Bodies that differ in what validateRequest does not look at: the author
\* of the message and the length. One body is refused by validateRequest.
PromptAuthors ==
    {AnAuthor, Str(<<>>), [kind |-> "undefined", chars |-> <<>>], Zero,
     [kind |-> "number", chars |-> <<>>]}
PromptLengths ==
    {NoLength, Str(<<"a">>), Str(<<" ">>), Zero,
     [kind |-> "number", chars |-> <<>>]}
PromptBodies ==
    {[ValidBody EXCEPT !.messages = Array(<<[GoodMessage EXCEPT !.author = a]>>),
                       !.length = l] :
        a \in PromptAuthors, l \in PromptLengths}
    \cup {[ValidBody EXCEPT !.messages = Array(<<>>)]}

\* One request at a time through the whole of POST, with any of these bodies.
NextPrompt ==
    \/ \E p \in {"p1"} : POST_Receive(p, PipeHeaders, PromptBodies)
    \/ \E p \in {"p1"} : POST_Screen(p)
    \/ \E p \in {"p1"} : Auth_GetUser(p)
    \/ \E p \in {"p1"} : Auth_Member(p)
    \/ \E p \in {"p1"} : Auth_MemberFallback(p)
    \/ \E p \in {"p1"} : Auth_Subscription(p)
    \/ \E p \in {"p1"} : Auth_Seat(p)
    \/ \E p \in {"p1"} : Auth_SeatFallback(p)
    \/ \E p \in {"p1"} : POST_RateLimit(p)
    \/ \E p \in {"p1"} : RL_Select(p)
    \/ \E p \in {"p1"} : RL_Insert(p)
    \/ \E p \in {"p1"} : RL_Update(p)
    \/ \E p \in {"p1"} : POST_AfterRateLimit(p)
    \/ \E p \in {"p1"} : Gemini_Fetch(p)
    \/ \E p \in {"p1"} : Gemini_ErrorText(p)
    \/ \E p \in {"p1"} : Gemini_Json(p)
    \/ \E p \in {"p1"} : Gemini_Timeout(p)
    \/ \E p \in {"p1"} : Usage_Select(p)
    \/ \E p \in {"p1"} : Usage_Insert(p)
    \/ \E p \in {"p1"} : Usage_Update(p)

SpecPrompt == InitPipe /\ [][NextPrompt]_vars

\* The pipeline on tables no request has written yet.
InitUpstream ==
    /\ InitPipe
    /\ rate_limits = {}
    /\ usage_metrics = {}

\* The pipeline with a timer that fires when it is due: the event loop runs
\* the callback of setTimeout once timeoutMs have passed.
SpecUpstream ==
    /\ InitUpstream /\ [][NextPipe]_vars
    /\ \A p \in Procs : WF_vars(Gemini_Timeout(p))

----------------------------------------------------------------------------
(* Claims about rateLimitUser, checked under SpecRL *)

Done(p) == pc[p] = "rl_done"

\* The decision a counter gives to the k-th call of a window that starts at w.
CounterDecision(k, w) ==
    IF k <= limit
    THEN [allowed |-> TRUE, remaining |-> limit - k, resetAt |-> w + WINDOW_MS]
    ELSE [allowed |-> FALSE, remaining |-> 0, resetAt |-> w + WINDOW_MS]

\* C1: with a healthy store, the sequential calls of one subject in one fixed
\* window are a counter: the k-th call (k <= limit) is allowed with
\* remaining = limit - k, every later call is denied with remaining = 0, and
\* the first call of the next window is allowed again with remaining = limit - 1.
C1_SequentialCounter ==
    \A p \in Procs :
        Done(p) /\ ~dirty[rl[p].user] =>
            rl[p].result = CounterDecision(rl[p].k, rl[p].windowStart)

\* C1 witness: a subject that was denied its (limit+1)-th call in the first
\* window is allowed the first call of a later window, all store calls healthy.
C1_Witness ==
    \E p \in Procs :
        /\ Done(p) /\ ~dirty[rl[p].user]
        /\ rl[p].windowStart >= WINDOW_MS /\ rl[p].k = 1
        /\ rl[p].result.allowed /\ rl[p].result.remaining = limit - 1
        /\ started[rl[p].user][0] = limit + 1
        /\ admitted[rl[p].user][0] = limit

WellFormed(r) ==
    /\ r.allowed \in BOOLEAN
    /\ r.remaining \in 0..(limit - 1)
    /\ ~r.allowed => r.remaining = 0
    /\ r.resetAt > 0

\* C2: rateLimitUser never raises; a call whose store step failed (an error
\* value, a thrown call, a null client) returns the well-formed decision that
\* checkInMemoryLimit computed from the in-memory bucket.
C2_NeverRaises ==
    \A p \in Procs :
        Done(p) =>
            /\ ~rl[p].raised
            /\ WellFormed(rl[p].result)
            /\ rl[p].failed =>
                 /\ rl[p].path = "fallback"
                 /\ rl[p].result.resetAt > rl[p].fbNow
                 /\ rl[p].result =
                      CheckInMemoryLimit(rl[p].fbBefore, rl[p].fbNow, limit).result

\* C2 witness: a call whose store step failed was denied by the in-memory
\* counter, which an earlier failed call had filled.
C2_Witness ==
    \E p \in Procs :
        /\ Done(p) /\ rl[p].failed /\ rl[p].client = "ok"
        /\ rl[p].path = "fallback"
        /\ ~rl[p].result.allowed /\ rl[p].result.remaining = 0

\* C3: the read-modify-write of checkInMemoryLimit is never split: under every
\* interleaving of requests the bucket count equals the number of calls the
\* bucket admitted, and that number never exceeds the limit.
C3_FallbackAtomic ==
    \A u \in Users :
        inMemoryBuckets[u].present =>
            /\ memAdmitted[u] = inMemoryBuckets[u].count
            /\ inMemoryBuckets[u].count <= limit

\* C3 witness: two overlapping calls of one subject both took the fallback
\* path and both increments are in the bucket.
C3_Witness ==
    \E p, q \in Procs :
        /\ p # q /\ Done(p) /\ Done(q)
        /\ rl[p].user = rl[q].user
        /\ rl[p].overlap /\ rl[q].overlap
        /\ rl[p].path = "fallback" /\ rl[q].path = "fallback"
        /\ rl[p].result.allowed /\ rl[q].result.allowed
        /\ inMemoryBuckets[rl[p].user].count = 2
        /\ memAdmitted[rl[p].user] = 2

\* C4: the persistent counter is a read-then-write: a successful update stores
\* the count its own select read plus one, whatever the row holds by then.
C4_ReadThenWrite ==
    [][\A p \in Procs :
          (pc[p] = "rl_update" /\ pc'[p] = "rl_done" /\ rl'[p].path = "primary") =>
              \A r \in MatchingRows(rate_limits', rl[p].user, rl[p].windowStart) :
                  r.count = rl[p].data + 1]_vars

\* C4 witness: two overlapping calls read the same count c < limit, both are
\* admitted, the row ends at c + 1, and the window admitted more than limit.
C4_Witness ==
    \E p, q \in Procs :
        /\ p # q /\ Done(p) /\ Done(q)
        /\ rl[p].user = rl[q].user /\ rl[p].windowStart = rl[q].windowStart
        /\ rl[p].path = "primary" /\ rl[q].path = "primary"
        /\ rl[p].result.allowed /\ rl[q].result.allowed
        /\ rl[p].data = rl[q].data /\ rl[p].data >= 1 /\ rl[p].data < limit
        /\ \A r \in MatchingRows(rate_limits, rl[p].user, rl[p].windowStart) :
               r.count = rl[p].data + 1
        /\ MatchingRows(rate_limits, rl[p].user, rl[p].windowStart) # {}
        /\ admitted[rl[p].user][rl[p].windowStart] > limit

----------------------------------------------------------------------------
(* Claims about validateRequest, checked under SpecValidate *)

Screened(p) == req[p].entry = "analyze" /\ req[p].trace # <<>>

\* A string made of whitespace only (the empty string included).
Blank(v) == v.kind = "string" /\ \A i \in 1..Len(v.chars) : IsSpace(v.chars[i])

\* messages is a list of 1 to 30 items whose texts are strings that are not
\* blank.
GoodMessages(body) ==
    /\ body.messages.kind = "array"
    /\ Len(body.messages.items) \in 1..30
    /\ \A i \in 1..Len(body.messages.items) :
          /\ body.messages.items[i].kind = "object"
          /\ body.messages.items[i].text.kind = "string"
          /\ ~Blank(body.messages.items[i].text)

HasBlankMessage(body) ==
    \E i \in 1..Len(body.messages.items) :
        /\ body.messages.items[i].kind = "object"
        /\ Blank(body.messages.items[i].text)

\* C8 (amended): validateRequest accepts a body if and only if messages is a
\* list of 1 to 30 items, every message has a text that is not empty once
\* sanitized, and tone is a string that is not empty once trimmed; a message
\* with a whitespace-only text makes POST answer 400 invalid_request.
C8_ValidateIff ==
    \A p \in Procs :
        Screened(p) =>
            /\ (req[p].validationError = Null) <=>
                  (GoodMessages(req[p].body)
                     /\ req[p].body.tone.kind = "string"
                     /\ ~Blank(req[p].body.tone))
            /\ HasBlankMessage(req[p].body) =>
                  req[p].response = ErrorResponse(400, "invalid_request")

\* C8 as claimed: tone need only be a non-empty string.
C8_Original ==
    \A p \in Procs :
        Screened(p) =>
            /\ (req[p].validationError = Null) <=>
                  (GoodMessages(req[p].body)
                     /\ req[p].body.tone.kind = "string"
                     /\ req[p].body.tone.chars # <<>>)
            /\ HasBlankMessage(req[p].body) =>
                  req[p].response = ErrorResponse(400, "invalid_request")

\* C8 witness: a body of two messages is accepted although one text holds
\* whitespace around its letter.
C8_Witness ==
    \E p \in Procs :
        /\ Screened(p) /\ req[p].validationError = Null
        /\ Len(req[p].body.messages.items) = 2
        /\ req[p].body.messages.items[2].text.chars = <<" ", "a">>
        /\ req[p].body.tone.chars = <<"a", "\n">>

----------------------------------------------------------------------------
(* Claims about the admission entry points, checked under SpecAuth *)

Responded(p) == pc[p] = "responded"

Contains(trace, event) == \E i \in 1..Len(trace) : trace[i] = event

\* The store calls a handler can make before it is admitted.
StoreCalls == {"getUser", "team_members", "teams", "subscriptions", "seats",
               "countSeats"}

\* The header is absent, or its scheme is not Bearer, or its token is empty.
Malformed(h) ==
    \/ ~h.present
    \/ h.value = <<>>
    \/ h.value[1] # "Bearer"
    \/ Len(h.value) >= 2 /\ h.value[2] # " "
    \/ Len(h.value) < 3
    \/ h.value[3] = " "

ActiveSeats(team) ==
    Cardinality({m \in team_members : m.team_id = team /\ m.seat_active})

ActiveSubscriptions(team) ==
    {x \in subscriptions : x.team_id = team /\ x.status = "active"}

\* The middleware has run its seat count, and the count query did not fail.
SeatsCounted(p) ==
    /\ req[p].entry = "middleware"
    /\ pc[p] \in {"responded", "mw_attached"}
    /\ Contains(req[p].trace, "countSeats")
    /\ req[p].response.code \notin {"seat_count_failed", "store_call_threw"}

\* C10: with seats_allowed = N, ensureSubscriptionAndSeat fails with
\* seat_limit_reached when the team has N or more active memberships and
\* succeeds when it has N - 1 (more generally, fewer than N).
C10_SeatLimit ==
    \A p \in Procs :
        SeatsCounted(p) =>
            \A x \in ActiveSubscriptions(req[p].teamId) :
                /\ ActiveSeats(req[p].teamId) >= x.seats_allowed =>
                      /\ Responded(p)
                      /\ req[p].response = Thrown("seat_limit_reached")
                /\ ActiveSeats(req[p].teamId) = x.seats_allowed - 1 =>
                      /\ pc[p] = "mw_attached"
                      /\ req[p].response = NoResponse

\* C10 witness: a team with exactly N = 2 active memberships and
\* seats_allowed = 2 is refused with seat_limit_reached.
C10_Witness ==
    \E p \in Procs :
        /\ SeatsCounted(p)
        /\ ActiveSeats(req[p].teamId) = 2
        /\ \E x \in ActiveSubscriptions(req[p].teamId) : x.seats_allowed = 2
        /\ req[p].response = Thrown("seat_limit_reached")

\* A team with N - 1 = 1 active membership and seats_allowed = 2 is admitted.
C10_WitnessAdmitted ==
    \E p \in Procs :
        /\ SeatsCounted(p)
        /\ ActiveSeats(req[p].teamId) = 1
        /\ \E x \in ActiveSubscriptions(req[p].teamId) : x.seats_allowed = 2
        /\ pc[p] = "mw_attached"

----------------------------------------------------------------------------
(* Claims about the request pipeline, checked under SpecPipe *)

\* The steps of a request in the order it took them.
Precedes(trace, a, b) ==
    \E j \in 1..Len(trace) :
        /\ trace[j] = b
        /\ \E i \in 1..(j - 1) : trace[i] = a
        /\ \A i \in j..Len(trace) : trace[i] # a

\* The store entitles user u of team t: a subscription that is active or
\* trialing, and a seat that is active.
Entitled(u, t) ==
    /\ \E x \in subscriptions :
          x.team_id = t /\ x.status \in {"active", "trialing"}
    /\ \E x \in seats :
          x.team_id = t /\ x.user_id = u /\ (x.status = "active" \/ x.is_active)

Denied(p) ==
    /\ pc[p] \in {"rl_done", "responded"}
    /\ rl[p].user # "none"
    /\ ~rl[p].result.allowed

\* C5: the upstream model is called only by a request whose token the
\* identity store has resolved to a user, whose user the tables entitle, and
\* which rateLimitUser has allowed, the three having happened in that order
\* before the call; a request rateLimitUser denies is answered 429
\* rate_limited and never calls upstream.
C5_UpstreamAfterAdmission ==
    \A p \in Procs :
        LET r == req[p] IN
        /\ r.upstreamCalls > 0 =>
              /\ r.userId # "none" /\ r.userId = UserOf(r.token)
              /\ Entitled(r.userId, r.teamId)
              /\ rl[p].user = r.userId /\ rl[p].result.allowed
              /\ Precedes(r.trace, "getUser", "team_members")
              /\ Precedes(r.trace, "team_members", "subscriptions")
              /\ Precedes(r.trace, "subscriptions", "seats")
              /\ Precedes(r.trace, "seats", "rateLimit")
              /\ Precedes(r.trace, "rateLimit", "upstream")
        /\ Denied(p) =>
              /\ r.upstreamCalls = 0
              /\ ~Contains(r.trace, "upstream")
              /\ Responded(p) => r.response = ErrorResponse(429, "rate_limited")

\* C5 witness: of two requests of the same user, one has been admitted and
\* has called upstream, the other has been denied and answered 429.
C5_Witness ==
    \E p, q \in Procs :
        /\ req[p].userId = req[q].userId
        /\ req[p].upstreamCalls = 1 /\ rl[p].result.allowed
        /\ Responded(q) /\ Denied(q)
        /\ req[q].response = ErrorResponse(429, "rate_limited")

\* The request of p has failed validation, authentication or entitlement.
Rejected(p) ==
    \/ req[p].validationError # Null
    \/ /\ Responded(p)
       /\ req[p].response \in {ErrorResponse(400, "invalid_json"),
                               ErrorResponse(400, "invalid_request"),
                               ErrorResponse(401, "unauthorized"),
                               ErrorResponse(403, "forbidden")}

\* The request of p has not entered rateLimitUser, called upstream or
\* entered logUsage.
SideEffectFree(p) ==
    /\ rl[p] = NoCall
    /\ req[p].upstreamCalls = 0
    /\ \A e \in {"rateLimit", "upstream", "usage_select", "usage_insert",
                 "usage_update"} : ~Contains(req[p].trace, e)

\* C6: a request that fails validation, authentication or entitlement has
\* not entered rateLimitUser or logUsage and has made no upstream call, and
\* every step of a request that has not entered rateLimitUser leaves the
\* rate_limits table, the in-memory buckets and the usage_metrics table as
\* they were.
C6_FailureHasNoEffect ==
    /\ [](\A p \in Procs : Rejected(p) => SideEffectFree(p))
    /\ [][\A p \in Procs :
             (pc'[p] # pc[p] /\ rl'[p] = NoCall) =>
                 UNCHANGED <<rate_limits, inMemoryBuckets, usage_metrics>>]_vars

\* C6 witness: one request has been answered 403 for want of a seat while
\* the other has been admitted and has had its usage recorded.
C6_Witness ==
    \E p, q \in Procs :
        /\ Responded(p) /\ req[p].response = ErrorResponse(403, "forbidden")
        /\ Contains(req[p].trace, "seats")
        /\ Responded(q) /\ req[q].response = Reply
        /\ usage_metrics # {} /\ rate_limits # {}

\* C7: a request whose messages list has no item or more than 30 items is
\* answered 400 invalid_request straight after validateRequest: its
\* credential is not parsed, and it makes no identity-store or table call.
C7_BoundsBeforeAuth ==
    \A p \in Procs :
        LET m == req[p].body.messages IN
        (/\ req[p].entry = "analyze" /\ m.kind = "array"
         /\ (Len(m.items) = 0 \/ Len(m.items) > 30)) =>
            /\ pc[p] \in {"post_screen", "responded"}
            /\ req[p].token = NoToken
            /\ ~Contains(req[p].trace, "parseBearer")
            /\ \A e \in StoreCalls : ~Contains(req[p].trace, e)
            /\ SideEffectFree(p)
            /\ Responded(p) =>
                  /\ req[p].trace = <<"validate">>
                  /\ req[p].response = ErrorResponse(400, "invalid_request")

\* C7 witness: a request of 31 messages carrying a good token has been
\* answered 400, and so has a request of no message.
C7_Witness ==
    \E p, q \in Procs :
        /\ Responded(p) /\ Len(req[p].body.messages.items) = 31
        /\ req[p].header = Header(<<"Bearer", " ", "tokA">>)
        /\ req[p].response = ErrorResponse(400, "invalid_request")
        /\ Responded(q) /\ req[q].body.messages = Array(<<>>)
        /\ req[q].validationError # Null


----------------------------------------------------------------------------
(* Claims about the entitlement policy, checked under SpecAuth *)

Last(trace) == trace[Len(trace)]

\* The error each entry point gives for a subscription that does not entitle.
SubscriptionInactive(entry) ==
    IF entry = "middleware" THEN Thrown("subscription_inactive")
    ELSE ErrorResponse(403, "forbidden")

\* The subscription query of the request of p has come back.
SubscriptionChecked(p) == Contains(req[p].trace, "subscriptions")

\* The request of p has ended at its subscription query.
RejectedAtSubscription(p) ==
    /\ Responded(p)
    /\ Last(req[p].trace) = "subscriptions"
    /\ req[p].response = SubscriptionInactive(req[p].entry)

\* The subscriptions of team t whose status is active or trialing.
LiveSubscriptions(t) ==
    {x \in subscriptions : x.team_id = t /\ x.status \in {"active", "trialing"}}

\* C11 as claimed: when no store call fails, either entry point lets a team
\* with one subscription that is active or trialing past its subscription
\* check, and fails with the subscription-inactive error a team that has no
\* such subscription.
C11_SubscriptionPolicy ==
    \A p \in Procs :
        (SubscriptionChecked(p) /\ ~req[p].faulted) =>
            LET live == LiveSubscriptions(req[p].teamId)
            IN  /\ live = {} => RejectedAtSubscription(p)
                /\ Cardinality(live) = 1 => ~RejectedAtSubscription(p)

\* C11 witness: with no store call failing, the middleware has refused a team
\* whose one subscription is trialing.
C11_Witness ==
    \E p \in Procs :
        /\ req[p].entry = "middleware" /\ ~req[p].faulted
        /\ RejectedAtSubscription(p)
        /\ \E x \in subscriptions :
              /\ subscriptions = {x}
              /\ x.team_id = req[p].teamId /\ x.status = "trialing"


----------------------------------------------------------------------------
(* Claims about the two entry points, checked under SpecPolicy *)

\* The entry point has admitted the request of p.
Admitted(p) ==
    IF req[p].entry = "middleware" THEN pc[p] = "mw_attached"
    ELSE pc[p] = "post_ratelimit"

\* The request of p has been admitted or refused with every store call of
\* its own having succeeded, after auth.getUser verified user u.
Resolved(p, u) ==
    /\ Admitted(p) \/ Responded(p)
    /\ req[p].userId = u
    /\ ~req[p].faulted

\* C12 as claimed: on any store, when no store call fails, the middleware
\* admits a verified user if and only if the analyze route admits the same
\* user.
C12_SamePolicy ==
    \A u \in Users :
        (Resolved("p1", u) /\ Resolved("p2", u)) =>
            (Admitted("p1") <=> Admitted("p2"))

\* C12 witness: the team's active subscription allows as many seats as the
\* team has active members; the middleware has refused the user with
\* seat_limit_reached and the analyze route has admitted the same user.
C12_Witness ==
    /\ Resolved("p1", "u1") /\ Resolved("p2", "u1")
    /\ req["p1"].response = Thrown("seat_limit_reached")
    /\ Admitted("p2")
    /\ \E x \in subscriptions : x.status = "active"

\* The same for a team on a trialing subscription with a free seat.
C12_WitnessTrialing ==
    /\ Resolved("p1", "u1") /\ Resolved("p2", "u1")
    /\ req["p1"].response = Thrown("subscription_inactive")
    /\ Admitted("p2")
    /\ \E x \in subscriptions :
          /\ subscriptions = {x} /\ x.status = "trialing"
          /\ ActiveSeats("t1") < x.seats_allowed

\* And the other way round: the middleware has admitted a user the analyze
\* route has refused.
C12_WitnessMiddlewareOnly ==
    /\ Resolved("p1", "u1") /\ Resolved("p2", "u1")
    /\ Admitted("p1")
    /\ req["p2"].response = ErrorResponse(403, "forbidden")


----------------------------------------------------------------------------
(* Claims about duplicate memberships, checked under SpecAuth *)

\* The rows the membership query of each entry point asks for.
ActiveMemberships(p) ==
    IF req[p].entry = "middleware"
    THEN {m \in team_members : m.user_id = req[p].userId /\ m.seat_active}
    ELSE {m \in team_members : m.user_id = req[p].userId /\ m.status = "active"}

MembershipChecked(p) == Contains(req[p].trace, "team_members")

C13_WitnessAnalyze ==
    \E p \in Procs :
        /\ req[p].entry = "analyze"
        /\ Cardinality(ActiveMemberships(p)) = 2 /\ ~req[p].faulted
        /\ Responded(p) /\ req[p].response = ErrorResponse(403, "forbidden")
        /\ Last(req[p].trace) = "team_members"


----------------------------------------------------------------------------
(* Claims about usage accounting, checked under SpecPipe *)

\* The upstream call of the request of p has returned a non-empty text.
GotReply(p) == req[p].text # <<>>

InLogUsage(p) == pc[p] \in {"usage_select", "usage_insert", "usage_update"}

\* C14: a request whose upstream call returned a non-empty text is answered
\* 200 {reply}, whatever the select, the insert or the update of logUsage
\* did (an error value or a throw), and logUsage runs for no other request.
C14_UsageFailureAbsorbed ==
    \A p \in Procs :
        /\ (GotReply(p) /\ Responded(p)) => req[p].response = Reply
        /\ GotReply(p) => (Responded(p) \/ InLogUsage(p))
        /\ InLogUsage(p) => GotReply(p)

\* C14 witness: the select of logUsage found the row, the update threw or
\* returned an error, the row is as it was, and the request has been
\* answered 200.
C14_Witness ==
    \E p \in Procs :
        /\ Responded(p) /\ req[p].response = Reply
        /\ req[p].faulted /\ Last(req[p].trace) = "usage_update"
        /\ \E m \in usage_metrics :
              /\ m.user_id = req[p].userId /\ m.team_id = req[p].teamId
              /\ m.tokens = req[p].usageTokens


\* logUsage has run for the request of p, past its test of tokens.
Logged(p) == Contains(req[p].trace, "usage_select")

\* logUsage has run to its end for the request of p, with no store call
\* failing and no other logUsage under way at the same time.
Recorded(p) ==
    /\ Responded(p) /\ Logged(p)
    /\ ~req[p].faulted /\ ~req[p].usageOverlap

RECURSIVE SumTokens(_)
SumTokens(S) ==
    IF S = {} THEN 0
    ELSE LET q == CHOOSE q \in S : TRUE
         IN  req[q].totalTokens + SumTokens(S \ {q})

\* The recordings of team t on date d have all run one after the other, on a
\* table that held no row before them.
Sequential(t, d) ==
    /\ PriorUsage \notin usage_metrics
    /\ \A m \in usage_metrics : m.id # PriorUsage.id
    /\ \A p \in Procs : (Logged(p) \/ InLogUsage(p)) => Recorded(p)
    /\ \A p \in Procs : Recorded(p) => req[p].teamId = t /\ req[p].usageDate = d
    /\ \E p \in Procs : Recorded(p)

\* C15 as claimed: after n recordings of a team on a date, one after the
\* other, the store holds one row of the team for the date, whose tokens are
\* the sum of the n recordings and whose requests_count is n.
C15_SequentialAggregate ==
    \A t \in {"t1"}, d \in {UsageDate(clock)} :
        Sequential(t, d) =>
            \E m \in usage_metrics :
                /\ {x \in usage_metrics : x.team_id = t /\ x.usage_date = d} = {m}
                /\ m.tokens = SumTokens({p \in Procs : Recorded(p)})
                /\ m.requests_count = Cardinality({p \in Procs : Recorded(p)})

\* C15 witness: two requests of the same user have recorded MaxTokens tokens
\* each, one after the other; the store holds one row with twice MaxTokens
\* tokens, and its requests_count is still 0.
C15_Witness ==
    /\ Sequential("t1", UsageDate(clock))
    /\ \A p \in Procs :
          Recorded(p) /\ req[p].userId = "u1" /\ req[p].totalTokens = MaxTokens
    /\ \E m \in usage_metrics :
          /\ usage_metrics = {m}
          /\ m.tokens = 2 * MaxTokens
          /\ m.requests_count = 0

\* The same for two users of the team: one row for each user, none for the
\* team.
C15_WitnessTwoUsers ==
    /\ Sequential("t1", UsageDate(clock))
    /\ \A p \in Procs : Recorded(p)
    /\ req["p1"].userId # req["p2"].userId
    /\ Cardinality(usage_metrics) = 2


\* C16: logUsage is a read-then-write: an update that changes the table
\* stores the tokens its own select read plus the tokens of the request,
\* whatever the row holds by then.
C16_UsageReadThenWrite ==
    [][\A p \in Procs :
          (/\ pc[p] = "usage_update" /\ pc'[p] # pc[p]
           /\ usage_metrics' # usage_metrics) =>
              \A m \in usage_metrics' :
                  (/\ m.usage_date = req[p].usageDate
                   /\ m.user_id = req[p].userId
                   /\ m.team_id = req[p].teamId) =>
                      m.tokens = req[p].usageTokens + req[p].totalTokens]_vars

\* C16 witness: two requests of one user were in logUsage together, both read
\* the same stored tokens, both updates succeeded, and the row holds the
\* tokens read plus the tokens of one request only.
C16_Witness ==
    \E p, q \in Procs :
        /\ p # q /\ Responded(p) /\ Responded(q)
        /\ req[p].userId = req[q].userId
        /\ ~req[p].faulted /\ ~req[q].faulted
        /\ req[p].usageOverlap /\ req[q].usageOverlap
        /\ Last(req[p].trace) = "usage_update" /\ Last(req[q].trace) = "usage_update"
        /\ req[p].usageTokens = req[q].usageTokens
        /\ req[p].totalTokens > 0 /\ req[q].totalTokens > 0
        /\ \E m \in usage_metrics :
              /\ usage_metrics = {m}
              /\ m.tokens = req[p].usageTokens + req[p].totalTokens
              /\ m.tokens < req[p].usageTokens + req[p].totalTokens
                               + req[q].totalTokens


\* The upstream call of the request of p has succeeded with an empty text.
GotEmptyReply(p) ==
    /\ Responded(p)
    /\ req[p].upstreamCalls > 0 /\ req[p].upstreamError = "none"
    /\ req[p].text = <<>>

UsageEvents == {"usage_select", "usage_insert", "usage_update"}

\* C17: a request whose upstream call succeeded with an empty text is
\* answered 502 empty_response without logUsage having run for it, and the
\* step that gives that answer leaves the usage_metrics table as it was.
C17_EmptyReplyNoUsage ==
    /\ [](\A p \in Procs :
             /\ GotEmptyReply(p) =>
                   /\ req[p].response = ErrorResponse(502, "empty_response")
                   /\ \A e \in UsageEvents : ~Contains(req[p].trace, e)
             /\ req[p].response = ErrorResponse(502, "empty_response") =>
                   GotEmptyReply(p))
    /\ [][\A p \in Procs :
             (/\ pc'[p] # pc[p]
              /\ req'[p].response = ErrorResponse(502, "empty_response")) =>
                 UNCHANGED usage_metrics]_vars

\* C17 witness: the upstream answered a text that trims to nothing and counted
\* tokens; the request has been answered 502 empty_response and the table
\* holds no row.
C17_Witness ==
    \E p \in Procs :
        /\ GotEmptyReply(p)
        /\ req[p].response = ErrorResponse(502, "empty_response")
        /\ req[p].totalTokens = MaxTokens
        /\ usage_metrics = {}


\* The request of p is the only one that has been received.
Alone(p) == \A q \in Procs \ {p} : pc[q] = "idle"

RECURSIVE SumOf(_, _)
SumOf(S, column) ==
    IF S = {} THEN 0
    ELSE LET m == CHOOSE m \in S : TRUE
         IN  m[column] + SumOf(S \ {m}, column)

\* What the store holds for team t on date d, summed over its rows.
Aggregate(t, d, column) ==
    SumOf({m \in usage_metrics : m.team_id = t /\ m.usage_date = d}, column)

\* What the store held for team t on date d before the requests.
AggregateBefore(t, d, column) ==
    IF \E m \in usage_metrics : m.id = PriorUsage.id
    THEN SumOf({m \in {PriorUsage} : m.team_id = t /\ m.usage_date = d}, column)
    ELSE 0

\* The request of p has been answered after an upstream reply with a
\* non-empty text and a count of n tokens.
RepliedWith(p, n) ==
    /\ Responded(p) /\ GotReply(p)
    /\ req[p].totalTokens = n

\* C18 as claimed: a request alone in the pipeline whose upstream call
\* returned a non-empty text and totalTokens = n is answered 200 {reply}, and
\* the aggregate of its team for the day has grown by n tokens and by one
\* request.
C18_ReplyAndUsage ==
    \A p \in Procs, n \in 0..MaxTokens :
        (Alone(p) /\ RepliedWith(p, n)) =>
            /\ req[p].response = Reply
            /\ Aggregate(req[p].teamId, UsageDate(clock), "tokens") =
                   AggregateBefore(req[p].teamId, UsageDate(clock), "tokens") + n
            /\ Aggregate(req[p].teamId, UsageDate(clock), "requests_count") =
                   AggregateBefore(req[p].teamId, UsageDate(clock),
                                   "requests_count") + 1

\* C18 witness: a request alone in the pipeline has been answered 200 after
\* a reply of MaxTokens tokens, no store call failed, the tokens of the
\* team for the day have grown by MaxTokens, and no request has been counted.
C18_Witness ==
    \E p \in Procs :
        /\ Alone(p) /\ RepliedWith(p, MaxTokens)
        /\ req[p].response = Reply /\ ~req[p].faulted
        /\ Aggregate(req[p].teamId, UsageDate(clock), "tokens") =
               AggregateBefore(req[p].teamId, UsageDate(clock), "tokens")
                   + MaxTokens
        /\ Aggregate(req[p].teamId, UsageDate(clock), "requests_count") = 0


\* generateGeminiReply is pending at one of its awaits for the request of p.
UpstreamPending(p) ==
    pc[p] \in {"gemini_fetch", "gemini_errorText", "gemini_json"}

UpstreamFailure == ErrorResponse(502, "ai_error")

\* C19: with a timer that fires when due, a pending generateGeminiReply
\* always comes to an end; a timer that fires while the call is pending makes
\* it fail with the timeout error, and every failure of the call ends the
\* request with the upstream failure response 502 ai_error.
C19_UpstreamTerminates ==
    /\ \A p \in Procs : UpstreamPending(p) ~> ~UpstreamPending(p)
    /\ [][\A p \in Procs :
             (/\ req[p].upstreamError # "timeout"
              /\ req'[p].upstreamError = "timeout") =>
                 /\ UpstreamPending(p)
                 /\ Responded(p)' /\ req'[p].response = UpstreamFailure
                 /\ req'[p].upstreamCalls = req[p].upstreamCalls]_vars
    /\ [](\A p \in Procs :
             req[p].upstreamError # "none" =>
                 /\ ~UpstreamPending(p)
                 /\ Responded(p) /\ req[p].response = UpstreamFailure)

\* C19 witness: the timer fired on a pending call, which failed with the
\* timeout error, and the request has been answered 502 ai_error.
C19_Witness ==
    \E p \in Procs :
        /\ req[p].upstreamCalls = 1 /\ req[p].upstreamError = "timeout"
        /\ Responded(p) /\ req[p].response = UpstreamFailure
        /\ req[p].text = <<>> /\ usage_metrics = {}


RECURSIVE Count(_, _)
Count(trace, event) ==
    IF trace = <<>> THEN 0
    ELSE (IF Head(trace) = event THEN 1 ELSE 0) + Count(Tail(trace), event)

\* C20: a request sends at most one request to the upstream model, and a
\* failure of generateGeminiReply (timeout, status, network, unparsable
\* body, missing key) is the end of the request: no later step sends
\* another.
C20_SingleAttempt ==
    /\ [](\A p \in Procs :
             /\ req[p].upstreamCalls <= 1
             /\ Count(req[p].trace, "upstream") = req[p].upstreamCalls
             /\ req[p].upstreamError # "none" => Responded(p))
    /\ [][\A p \in Procs :
             (UpstreamPending(p) /\ pc'[p] # pc[p]) =>
                 /\ req'[p].upstreamCalls = req[p].upstreamCalls
                 /\ req'[p].trace = req[p].trace \/ ~UpstreamPending(p)']_vars

\* C20 witness: the upstream answered a status that is not a success, the
\* request has been answered 502 ai_error, and it sent one request upstream.
C20_Witness ==
    \E p \in Procs :
        /\ Responded(p) /\ req[p].upstreamError = "status"
        /\ req[p].response = UpstreamFailure
        /\ req[p].upstreamCalls = 1
        /\ Count(req[p].trace, "upstream") = 1


----------------------------------------------------------------------------
(* Claims about the windows of the two paths of rateLimitUser *)

\* C21 as claimed: a call that ends on the fallback path at time now returns
\* the end of the aligned window of now, floor(now / WINDOW_MS) * WINDOW_MS
\* + WINDOW_MS, as a call on the primary path does.
C21_FallbackAligned ==
    \A p \in Procs :
        (Done(p) /\ rl[p].path = "fallback") =>
            rl[p].result.resetAt = WindowStart(rl[p].fbNow) + WINDOW_MS

\* C21 witness: a call found no bucket half way through an aligned window;
\* checkInMemoryLimit opened a window that starts at the call, and the
\* decision carries now + WINDOW_MS, past the end of the aligned window.
C21_Witness ==
    \E p \in Procs :
        /\ Done(p) /\ rl[p].path = "fallback"
        /\ ~rl[p].fbBefore.present
        /\ rl[p].fbNow # WindowStart(rl[p].fbNow)
        /\ rl[p].result.allowed
        /\ rl[p].result.resetAt = rl[p].fbNow + WINDOW_MS
        /\ rl[p].result.resetAt > WindowStart(rl[p].fbNow) + WINDOW_MS
        /\ inMemoryBuckets[rl[p].user].resetAt = rl[p].fbNow + WINDOW_MS


\* C22 as claimed: in one process that serves its requests one after the
\* other, with each store call free to succeed or to fail, a subject is
\* admitted at most limit times in one fixed window.
C22_SingleProcessLimit ==
    \A u \in Users, w \in Windows : admitted[u][w] <= limit

\* C22 witness: the store admitted limit calls of a subject in a window and
\* then failed; the in-memory counter, which had seen none of them, admitted
\* limit more calls of the same window.
C22_Witness ==
    \E u \in Users, w \in Windows :
        /\ admitted[u][w] = 2 * limit
        /\ \E r \in MatchingRows(rate_limits, u, w) : r.count = limit
        /\ inMemoryBuckets[u].present /\ inMemoryBuckets[u].count = limit
        /\ inMemoryBuckets[u].resetAt = w + WINDOW_MS
        /\ \A p \in Procs : ~rl[p].overlap


RECURSIVE SumAt(_, _)
SumAt(f, T) ==
    IF T = {} THEN 0
    ELSE LET t == CHOOSE t \in T : TRUE
         IN  f[t] + SumAt(f, T \ {t})

\* The calls of u admitted at a time in [from, from + WINDOW_MS).
AdmittedWithin(u, from) ==
    SumAt(admittedAt[u], {t \in Times : from <= t /\ t < from + WINDOW_MS})

\* C23: with a healthy store and one call at a time, a subject is admitted
\* at most limit times in a fixed window, and at most 2 x limit times in any
\* interval as long as a window, wherever the interval starts.
C23_FixedWindowBurst ==
    \A u \in Users :
        ~dirty[u] =>
            /\ \A w \in Windows : admitted[u][w] <= limit
            /\ \A w \in Windows :
                  admitted[u][w] = AdmittedWithin(u, w)
            /\ \A from \in Times : AdmittedWithin(u, from) <= 2 * limit

\* C23 witness: an interval as long as a window that starts inside one fixed
\* window and ends inside the next holds 2 x limit admitted calls of one
\* subject, limit on each side of the boundary, all on the primary path.
C23_Witness ==
    \E u \in Users, from \in Times, w \in Windows :
        /\ ~dirty[u]
        /\ w < from /\ from < w + WINDOW_MS /\ w + WINDOW_MS \in Windows
        /\ AdmittedWithin(u, from) = 2 * limit
        /\ admittedAt[u][from] = limit
        /\ admittedAt[u][w + WINDOW_MS] = limit
        /\ admitted[u][w] = limit /\ admitted[u][w + WINDOW_MS] = limit


----------------------------------------------------------------------------
(* Claims about the rows logUsage leaves, checked under SpecPipe *)

\* C24 as claimed: the store never holds two usage rows of one team for one
\* date, whichever users of the team made the requests and however their
\* requests interleave.
C24_OneRowPerTeamDay ==
    \A m1, m2 \in usage_metrics :
        (m1.team_id = m2.team_id /\ m1.usage_date = m2.usage_date) => m1 = m2

\* C24 witness: two users of one team have each had a reply recorded on the
\* same day, one after the other and with every store call succeeding; the
\* store holds a row for each of them.
C24_Witness ==
    \E m1, m2 \in usage_metrics :
        /\ m1.team_id = m2.team_id /\ m1.usage_date = m2.usage_date
        /\ m1.user_id = "u1" /\ m2.user_id = "u2"
        /\ \A p \in Procs : Recorded(p) /\ Last(req[p].trace) = "usage_insert"
        /\ req["p1"].teamId = req["p2"].teamId
        /\ Cardinality({m \in usage_metrics : m.team_id = m1.team_id}) = 2

\* The same from one user: two requests found no row, and both inserted one.
C24_WitnessSameUser ==
    \E m1, m2 \in usage_metrics :
        /\ m1 # m2
        /\ m1.team_id = m2.team_id /\ m1.usage_date = m2.usage_date
        /\ m1.user_id = m2.user_id
        /\ \A p \in Procs :
              /\ Responded(p) /\ ~req[p].faulted /\ req[p].usageOverlap
              /\ Last(req[p].trace) = "usage_insert"


----------------------------------------------------------------------------
(* Claims about buildPrompt, checked under SpecPrompt *)

\* POST has called buildPrompt for the request of p: the body was accepted,
\* the caller was admitted, and the rate limit let the request through.
PromptBuilt(p) ==
    /\ req[p].validationError = Null
    /\ Contains(req[p].trace, "rateLimit")
    /\ Responded(p) \/ UpstreamPending(p) \/ InLogUsage(p)
    /\ ~rl[p].raised /\ rl[p].result.allowed

\* C25 as claimed: for every body validateRequest accepts, whatever the
\* author of a message and the length are, buildPrompt returns and POST goes
\* on to generateGeminiReply: no request ends with buildPrompt raising.
C25_PromptNeverFails ==
    \A p \in Procs :
        /\ ValidateRequest(req[p].body) = Null =>
              req[p].response # Thrown("build_prompt_threw")
        /\ PromptBuilt(p) =>
              \/ Contains(req[p].trace, "upstream")
              \/ req[p].upstreamError = "no_key"

\* C25 witness: a body whose one message has a good text and a number for
\* author was accepted by validateRequest, the caller was admitted and
\* under the limit, buildPrompt raised, and no upstream call was made.
C25_Witness ==
    \E p \in Procs :
        /\ PromptBuilt(p) /\ Responded(p)
        /\ ValidateRequest(req[p].body) = Null
        /\ req[p].body.messages.items[1].author.kind = "number"
        /\ req[p].body.length = NoLength
        /\ req[p].response = Thrown("build_prompt_threw")
        /\ req[p].upstreamCalls = 0

\* The same for a length that is a number and an author that is a string.
C25_WitnessLength ==
    \E p \in Procs :
        /\ PromptBuilt(p) /\ Responded(p)
        /\ req[p].body.messages.items[1].author = AnAuthor
        /\ req[p].body.length.kind \in {"number", "zero"}
        /\ req[p].response = Thrown("build_prompt_threw")


----------------------------------------------------------------------------
(* Claims about the order of the checks of ensureSubscriptionAndSeat *)

\* ensureSubscriptionAndSeat has run to its end for the request of p with
\* every store call answering, for a user with at most one active membership.
Ensured(p) ==
    /\ req[p].entry = "middleware"
    /\ Contains(req[p].trace, "team_members")
    /\ ~req[p].faulted
    /\ Responded(p) \/ pc[p] = "mw_attached"
    /\ Cardinality({m \in team_members :
                       m.user_id = req[p].userId /\ m.seat_active}) <= 1

\* The checks in the order of the code, as the tables decide them.
NoMembership(u) ==
    {m \in team_members : m.user_id = u /\ m.seat_active} = {}
TeamOf(u) ==
    (CHOOSE m \in team_members : m.user_id = u /\ m.seat_active).team_id
NoTeam(u) == TeamOf(u) \notin teams
NoSubscription(u) ==
    Cardinality({x \in subscriptions :
                    x.team_id = TeamOf(u) /\ x.status = "active"}) # 1
NoSeat(u) ==
    LET sub == CHOOSE x \in subscriptions :
                   x.team_id = TeamOf(u) /\ x.status = "active"
    IN  Cardinality({m \in team_members :
                        m.team_id = TeamOf(u) /\ m.seat_active})
            >= sub.seats_allowed

\* The error of the first check that fails, "none" when all four pass.
FirstFailure(u) ==
    IF NoMembership(u) THEN "team_membership_missing"
    ELSE IF NoTeam(u) THEN "team_missing"
    ELSE IF NoSubscription(u) THEN "subscription_inactive"
    ELSE IF NoSeat(u) THEN "seat_limit_reached"
    ELSE "none"

\* The store calls that come after the check that raises each error.
LaterCalls(code) ==
    CASE code = "team_membership_missing" -> {"teams", "subscriptions", "countSeats"}
      [] code = "team_missing" -> {"subscriptions", "countSeats"}
      [] code = "subscription_inactive" -> {"countSeats"}
      [] OTHER -> {}

\* C26: ensureSubscriptionAndSeat raises the error of the first check that
\* fails, in the order membership, team, subscription, seat count, without
\* making the store calls of the later checks, and returns a context only
\* when the four checks pass.
C26_FirstFailingCheck ==
    \A p \in Procs :
        Ensured(p) =>
            LET code == FirstFailure(req[p].userId)
            IN  /\ code = "none" <=> pc[p] = "mw_attached"
                /\ code # "none" => req[p].response = Thrown(code)
                /\ \A e \in LaterCalls(code) : ~Contains(req[p].trace, e)

\* C26 witness: the caller has no active membership and the team has no
\* active subscription either; the error is team_membership_missing and the
\* subscriptions table was not read.
C26_Witness ==
    \E p \in Procs :
        /\ Ensured(p)
        /\ NoMembership(req[p].userId)
        /\ \A x \in subscriptions : x.status # "active"
        /\ req[p].response = Thrown("team_membership_missing")
        /\ ~Contains(req[p].trace, "subscriptions")

\* The team of the membership is missing: team_missing, and no subscription
\* lookup.
C26_WitnessTeam ==
    \E p \in Procs :
        /\ Ensured(p)
        /\ ~NoMembership(req[p].userId) /\ NoTeam(req[p].userId)
        /\ req[p].response = Thrown("team_missing")
        /\ Last(req[p].trace) = "teams"

\* The four checks pass and the context is returned.
C26_WitnessContext ==
    \E p \in Procs :
        /\ Ensured(p) /\ pc[p] = "mw_attached"
        /\ FirstFailure(req[p].userId) = "none"
        /\ Last(req[p].trace) = "countSeats"


----------------------------------------------------------------------------
(* Claims about concurrent logUsage calls, checked under SpecPipe *)

\* C27 as claimed: no step makes the tokens of a usage row smaller, however
\* the logUsage calls of concurrent requests interleave (logUsage returns
\* before its select when the token count is 0 or absent, so every write adds
\* a positive count to what was read).
C27_TokensNeverDecrease ==
    [][\A m \in usage_metrics : \A n \in usage_metrics' :
          n.id = m.id => n.tokens >= m.tokens]_vars

\* C27 witness: two requests of one user read the same tokens from the row;
\* both updates succeeded, the one with the larger count first; the row holds
\* the tokens read plus the smaller count, less than after the first update.
C27_Witness ==
    \E p, q \in Procs :
        /\ p # q /\ Responded(p) /\ Responded(q)
        /\ ~req[p].faulted /\ ~req[q].faulted
        /\ Logged(p) /\ Last(req[p].trace) = "usage_update"
        /\ Logged(q) /\ Last(req[q].trace) = "usage_update"
        /\ req[p].userId = req[q].userId
        /\ req[p].usageTokens = req[q].usageTokens
        /\ req[q].totalTokens > 0
        /\ req[p].totalTokens > req[q].totalTokens
        /\ \E m \in usage_metrics :
              /\ usage_metrics = {m}
              /\ m.tokens = req[q].usageTokens + req[q].totalTokens
              /\ m.tokens < req[p].usageTokens + req[p].totalTokens


----------------------------------------------------------------------------
(* Claims about what the caller sees of an upstream failure *)

\* generateGeminiReply failed for the request of p in the given way, and POST
\* has answered.
FailedWith(p, kind) == Responded(p) /\ req[p].upstreamError = kind

\* C28 as claimed: a request whose upstream call ran into the deadline and a
\* request whose upstream call got a status that is not a success are
\* answered with different error kinds.
C28_TimeoutDistinguishable ==
    \A p, q \in Procs :
        (FailedWith(p, "timeout") /\ FailedWith(q, "status")) =>
            req[p].response # req[q].response

\* C28 witness: one request timed out upstream, another got a status that is
\* not a success; both callers got 502 ai_error.
C28_Witness ==
    \E p, q \in Procs :
        /\ FailedWith(p, "timeout") /\ FailedWith(q, "status")
        /\ req[p].response = ErrorResponse(502, "ai_error")
        /\ req[q].response = ErrorResponse(502, "ai_error")
        /\ req[p].upstreamCalls = 1 /\ req[q].upstreamCalls = 1


----------------------------------------------------------------------------
(* Claims about the counters of rateLimitUser under concurrent requests *)

InRange(count) == 1 <= count /\ count <= limit

\* C29: for limit >= 1, under every interleaving of requests, each row of
\* rate_limits and each in-memory bucket holds a count from 1 to limit, and
\* each decision returned has a remaining from 0 to limit - 1 that is 0 when
\* the call is denied.
C29_CountsInRange ==
    /\ \A r \in rate_limits : InRange(r.count)
    /\ \A u \in Users : inMemoryBuckets[u].present => InRange(inMemoryBuckets[u].count)
    /\ \A p \in Procs :
          Done(p) =>
              /\ 0 <= rl[p].result.remaining
              /\ rl[p].result.remaining <= limit - 1
              /\ ~rl[p].result.allowed => rl[p].result.remaining = 0

\* C29 witness: two overlapping calls of one subject read the same count
\* limit - 1 and both updated the row, which holds limit; the bucket of the
\* subject holds limit too.
C29_Witness ==
    \E p, q \in Procs :
        /\ p # q /\ Done(p) /\ Done(q)
        /\ rl[p].user = rl[q].user /\ rl[p].overlap /\ rl[q].overlap
        /\ rl[p].path = "primary" /\ rl[q].path = "primary"
        /\ rl[p].result.allowed /\ rl[q].result.allowed
        /\ rl[p].data >= 1
        /\ rl[p].data = limit - 1 /\ rl[q].data = limit - 1
        /\ rl[p].result.remaining = 0 /\ rl[q].result.remaining = 0
        /\ \E r \in MatchingRows(rate_limits, rl[p].user, rl[p].windowStart) :
              r.count = limit

\* A call denied on each path, with full counters.
C29_WitnessDenied ==
    \E p \in Procs, u \in Users :
        /\ Done(p) /\ rl[p].user = u /\ ~rl[p].result.allowed
        /\ rl[p].result.remaining = 0
        /\ inMemoryBuckets[u].present /\ inMemoryBuckets[u].count = limit
        /\ \E r \in rate_limits : r.user_id = u /\ r.count = limit


\* The count the call of p read for its window had reached the limit: the
\* count of the row on the primary path, the count of a bucket that has not
\* expired on the fallback path.
ReadFull(p) ==
    IF rl[p].path = "primary" THEN rl[p].data >= limit
    ELSE /\ rl[p].fbBefore.present
         /\ rl[p].fbBefore.resetAt > rl[p].fbNow
         /\ rl[p].fbBefore.count >= limit

\* C30: a call is denied exactly when the count it read for the current
\* window had reached the limit, and the step that denies it leaves every row
\* of rate_limits and every in-memory bucket (count and resetAt) as it was.
C30_DeniedChangesNothing ==
    /\ [](\A p \in Procs : Done(p) => (~rl[p].result.allowed <=> ReadFull(p)))
    /\ [][\A p \in Procs :
             (/\ pc[p] # "rl_done" /\ pc'[p] = "rl_done"
              /\ ~rl'[p].result.allowed) =>
                 /\ rate_limits' = rate_limits
                 /\ inMemoryBuckets' = inMemoryBuckets]_vars

\* C30 witness: a call was denied by a full bucket some time after the
\* bucket was opened; the bucket still holds the count and the resetAt it
\* held before the call, and the decision carries that resetAt.
C30_Witness ==
    \E p \in Procs :
        /\ Done(p) /\ rl[p].path = "fallback" /\ ~rl[p].result.allowed
        /\ rl[p].fbBefore.resetAt < rl[p].fbNow + WINDOW_MS
        /\ inMemoryBuckets[rl[p].user] = rl[p].fbBefore
        /\ rl[p].result.resetAt = rl[p].fbBefore.resetAt

\* The same on the primary path: the row holds limit after the denied call.
C30_WitnessPrimary ==
    \E p \in Procs :
        /\ Done(p) /\ rl[p].path = "primary" /\ ~rl[p].result.allowed
        /\ rl[p].now > rl[p].windowStart
        /\ \E r \in MatchingRows(rate_limits, rl[p].user, rl[p].windowStart) :
              r.count = limit /\ r.count = rl[p].data

====
